---- MODULE Spec2Model ----
(***************************************************************************)
(* Genesis: stress-test orchestrator (Checker), test-data orchestrator     *)
(* (Maker), compilation cache, output differ and data formatter.           *)
(*                                                                         *)
(* Strings are sequences of one-character strings, so that joining,        *)
(* splitting and trimming are computed character by character.             *)
(***************************************************************************)
EXTENDS Integers, Sequences, FiniteSets, TLC

\* ------------------------------------------------------------------------
\* Bounds of the model
\* ------------------------------------------------------------------------
MaxCount == 2
MaxRuns == 1

\* ------------------------------------------------------------------------
\* Characters and string helpers
\* ------------------------------------------------------------------------
LF == "\n"
CR == "\r"
SP == " "
TAB == "\t"
EmptyStr == << >>

Whitespace == {SP, TAB, CR, LF}

RECURSIVE Concat(_)
\* flattens a sequence of strings into one string
Concat(ss) == IF ss = << >> THEN << >> ELSE Head(ss) \o Concat(Tail(ss))

RECURSIVE Join(_, _)
\* Array.prototype.join on an array of strings
Join(ss, sep) ==
  IF ss = << >> THEN << >>
  ELSE IF Len(ss) = 1 THEN Head(ss)
  ELSE Head(ss) \o sep \o Join(Tail(ss), sep)

RECURSIVE ReplaceCRLF(_)
\* text.replace(/\r\n/g, '\n')
ReplaceCRLF(s) ==
  IF s = << >> THEN << >>
  ELSE IF Len(s) >= 2 /\ s[1] = CR /\ s[2] = LF
       THEN <<LF>> \o ReplaceCRLF(SubSeq(s, 3, Len(s)))
       ELSE <<Head(s)>> \o ReplaceCRLF(Tail(s))

RECURSIVE SplitFrom(_, _, _)
SplitFrom(s, sep, cur) ==
  IF s = << >> THEN <<cur>>
  ELSE IF Head(s) = sep THEN <<cur>> \o SplitFrom(Tail(s), sep, << >>)
  ELSE SplitFrom(Tail(s), sep, Append(cur, Head(s)))

\* String.prototype.split(sep) for a one-character separator
Split(s, sep) == SplitFrom(s, sep, << >>)

RECURSIVE TrimEnd(_)
\* String.prototype.trimEnd
TrimEnd(s) ==
  IF s = << >> THEN << >>
  ELSE IF s[Len(s)] \in Whitespace THEN TrimEnd(SubSeq(s, 1, Len(s) - 1))
  ELSE s

NonEmptyLine(line) == line # << >>

MapTrimEnd(lines) == [j \in 1..Len(lines) |-> TrimEnd(lines[j])]

\* ------------------------------------------------------------------------
\* differ.ts
\* ------------------------------------------------------------------------
\* a normalisation that trims the lines before it drops the empty ones
normalizeOutput_TrimFirst(text) ==
  IF text = << >> THEN << >>
  ELSE SelectSeq(MapTrimEnd(Split(ReplaceCRLF(text), LF)), NonEmptyLine)

normalizeOutput(text) ==
  IF text = << >> THEN << >>
  ELSE MapTrimEnd(SelectSeq(Split(ReplaceCRLF(text), LF), NonEmptyLine))

\* a comparison that normalises in both modes
compareOutputs_AlwaysNormalized(stdOut, myOut, mode) ==
  normalizeOutput(stdOut) = normalizeOutput(myOut)

compareOutputs(stdOut, myOut, mode) ==
  IF mode = "exact" THEN stdOut = myOut
  ELSE LET stdLines == normalizeOutput(stdOut)
           myLines == normalizeOutput(myOut)
       IN  /\ Len(stdLines) = Len(myLines)
           /\ \A j \in 1..Len(stdLines) : stdLines[j] = myLines[j]

\* ------------------------------------------------------------------------
\* Structured generator data. Every value is a record of the same shape:
\*   k = "num" (n), "str" (s), "arr" (a), "null" or "undef".
\* ------------------------------------------------------------------------
Num(n) == [k |-> "num", n |-> n, s |-> << >>, a |-> << >>]
Str(s) == [k |-> "str", n |-> 0, s |-> s, a |-> << >>]
Arr(a) == [k |-> "arr", n |-> 0, s |-> << >>, a |-> a]
Null == [k |-> "null", n |-> 0, s |-> << >>, a |-> << >>]
Undefined == [k |-> "undef", n |-> 0, s |-> << >>, a |-> << >>]

Digit(d) == <<"0", "1", "2", "3", "4", "5", "6", "7", "8", "9">>[d + 1]

RECURSIVE NatToStr(_)
NatToStr(n) == IF n < 10 THEN <<Digit(n)>> ELSE NatToStr(n \div 10) \o <<Digit(n % 10)>>

RECURSIVE JsString(_)
RECURSIVE JsJoin(_, _)
\* String(v) of JavaScript
JsString(v) ==
  CASE v.k = "num" -> NatToStr(v.n)
    [] v.k = "str" -> v.s
    [] v.k = "arr" -> JsJoin(v.a, <<",">>)
    [] v.k = "null" -> <<"n", "u", "l", "l">>
    [] OTHER -> <<"u", "n", "d", "e", "f", "i", "n", "e", "d">>

\* Array.prototype.join: null and undefined members become the empty string
JsJoin(a, sep) ==
  Join([j \in 1..Len(a) |->
          IF a[j].k \in {"null", "undef"} THEN << >> ELSE JsString(a[j])], sep)

\* ------------------------------------------------------------------------
\* formatter.ts
\* ------------------------------------------------------------------------
formatLine(item) ==
  IF item.k = "arr" THEN JsJoin(item.a, <<SP>>) ELSE JsString(item)

\* a classification that knows no matrices
IsMatrix_Never(item) == FALSE

IsMatrix(item) == item.k = "arr" /\ Len(item.a) > 0 /\ item.a[1].k = "arr"
\* a classification that knows no arrays of strings
IsStringLines_Never(item) == FALSE

\* a classification that looks at every member, not at the first alone
IsStringLines_Every(item) ==
  item.k = "arr" /\ Len(item.a) > 0 /\ \A j \in 1..Len(item.a) : item.a[j].k = "str"

IsStringLines(item) == item.k = "arr" /\ Len(item.a) > 0 /\ item.a[1].k = "str"

\* the values one top-level element pushes onto `lines`
ItemLines(item) ==
  IF IsMatrix(item) THEN [j \in 1..Len(item.a) |-> Str(formatLine(item.a[j]))]
  ELSE IF IsStringLines(item) THEN item.a
  ELSE <<Str(formatLine(item))>>

RECURSIVE CollectLines(_)
CollectLines(items) ==
  IF items = << >> THEN << >>
  ELSE ItemLines(Head(items)) \o CollectLines(Tail(items))

\* formatData without its first test
formatData_NoNullTest(data) ==
  IF data.k # "arr" THEN formatLine(data)
  ELSE JsJoin(CollectLines(data.a), <<LF>>)

formatData(data) ==
  IF data.k \in {"null", "undef"} THEN << >>
  ELSE IF data.k # "arr" THEN formatLine(data)
  ELSE JsJoin(CollectLines(data.a), <<LF>>)

\* ------------------------------------------------------------------------
\* Names of the host: source files, compilers, flags (as character strings)
\* ------------------------------------------------------------------------
STD_CPP == <<"s", "t", "d", ".", "c", "p", "p">>
MY_CPP == <<"m", "y", ".", "c", "p", "p">>
GONE_CPP == <<"g", "o", "n", "e", ".", "c", "p", "p">>
UNDEFINED_PATH == <<"u", "n", "d", "e", "f", "i", "n", "e", "d">>

GPP == <<"g", "+", "+">>
CLANGPP == <<"c", "l", "a", "n", "g", "+", "+">>
GPP12 == <<"g", "+", "+", "-", "1", "2">>

FLAG_O2 == <<"-", "O", "2">>
FLAG_STD17 == <<"-", "s", "t", "d", "=", "c", "+", "+", "1", "7">>
FLAG_WALL == <<"-", "W", "a", "l", "l">>
FLAG_WNO == <<"-", "W", "n", "o", "-", "u", "n", "u", "s", "e", "d", "-",
              "r", "e", "s", "u", "l", "t">>
FLAG_G == <<"-", "g">>

TEMP_DIR == <<".", "g", "e", "n", "e", "s", "i", "s">>

\* compiler.ts
DEFAULT_COMPILER_CONFIGS ==
  [c \in {GPP, CLANGPP} |->
     IF c = GPP THEN <<FLAG_O2, FLAG_STD17, FLAG_WALL>>
     ELSE <<FLAG_O2, FLAG_STD17, FLAG_WALL, FLAG_WNO>>]

COMPILERS_TO_CHECK == <<GPP, CLANGPP>>

\* a partial record: the value of field k, or dflt when the field is absent
Get(c, k, dflt) == IF k \in DOMAIN c THEN c[k] ELSE dflt

\* object spread { ...a, ...b }
Merge(a, b) ==
  [k \in (DOMAIN a) \cup (DOMAIN b) |-> IF k \in DOMAIN b THEN b[k] ELSE a[k]]

\* object rest: the fields of c other than those in ks
Omit(c, ks) == [k \in (DOMAIN c) \ ks |-> c[k]]

VARIABLES
  srcFiles,      \* source path -> [exists, bytes]
  installed,     \* the compiler commands that run on this host
  cacheFile,     \* .genesis/cache.json: [ok, map]; ok = FALSE: missing or unparsable
  disk,          \* the artifact paths that exist under .genesis
  compilerRuns,  \* number of compiler invocations so far
  cacheWrites    \* number of writes of cache.json so far

fsVars == <<srcFiles, installed, cacheFile, disk, compilerRuns, cacheWrites>>

NoFile == [exists |-> FALSE, bytes |-> << >>]
File(bytes) == [exists |-> TRUE, bytes |-> bytes]

ReadSource(path) == IF path \in DOMAIN srcFiles THEN srcFiles[path] ELSE NoFile

\* the compiler accepts a source unless it holds the character "!"
Compiles(bytes) == \A j \in 1..Len(bytes) : bytes[j] # "!"

RECURSIVE LastDot(_)
LastDot(s) ==
  IF s = << >> THEN 0
  ELSE IF s[Len(s)] = "." THEN Len(s)
  ELSE LastDot(SubSeq(s, 1, Len(s) - 1))

\* path.parse(p).name for a path without directory part
ParseName(p) == IF LastDot(p) <= 1 THEN p ELSE SubSeq(p, 1, LastDot(p) - 1)

\* crypto.createHash('sha256').update(s).digest('hex'): a digest is modelled as
\* collision-free, so it is the tagged input; so is its 8-character prefix.
sha256Hex(s) == <<"#">> \o s
HashPrefix8(hash) == hash

\* compiler.ts: findSystemCompiler; << >> stands for null
RECURSIVE FirstAvailable(_)
FirstAvailable(cmds) ==
  IF cmds = << >> THEN << >>
  ELSE IF Head(cmds) \in installed THEN Head(cmds)
  ELSE FirstAvailable(Tail(cmds))

findSystemCompiler == FirstAvailable(COMPILERS_TO_CHECK)

\* compilation.ts: resolveCompiler (userCompiler || await findSystemCompiler())
resolveCompiler(userCompiler) ==
  IF userCompiler # << >> THEN userCompiler ELSE findSystemCompiler

FinalFlags(compilerCommand, userFlags) ==
  (IF compilerCommand \in DOMAIN DEFAULT_COMPILER_CONFIGS
   THEN DEFAULT_COMPILER_CONFIGS[compilerCommand]
   ELSE DEFAULT_COMPILER_CONFIGS[GPP]) \o userFlags

\* compilation.ts: getCompilationProfile, on the bytes read from the source
ProfileHash(bytes, compilerCommand, finalFlags) ==
  sha256Hex(bytes \o compilerCommand \o Concat(finalFlags))

CacheKey(sourceFile, compilerCommand) == sourceFile \o <<"-">> \o compilerCommand

ExecutablePath(sourceFile, hash) ==
  TEMP_DIR \o <<"/">> \o ParseName(sourceFile) \o <<"-">> \o HashPrefix8(hash)

\* a lookup that never finds an entry
findCachedExecutable_Never(cacheKey, currentHash) == << >>

\* a lookup that does not check that the artifact exists
findCachedExecutable_NoAccess(cacheKey, currentHash) ==
  IF /\ cacheFile.ok
     /\ cacheKey \in DOMAIN cacheFile.map
     /\ cacheFile.map[cacheKey].hash = currentHash
  THEN cacheFile.map[cacheKey].executablePath
  ELSE << >>

\* compilation.ts: findCachedExecutable; << >> stands for null
findCachedExecutable(cacheKey, currentHash) ==
  IF ~cacheFile.ok THEN << >>
  ELSE IF /\ cacheKey \in DOMAIN cacheFile.map
          /\ cacheFile.map[cacheKey].hash = currentHash
          /\ cacheFile.map[cacheKey].executablePath \in disk
       THEN cacheFile.map[cacheKey].executablePath
       ELSE << >>

\* an update that gives up on an unreadable cache file
updateCache_NoRecover(cacheKey, hash, executablePath) ==
  IF ~cacheFile.ok THEN cacheFile
  ELSE [ok |-> TRUE,
        map |-> [k \in (DOMAIN cacheFile.map) \cup {cacheKey} |->
                   IF k = cacheKey
                   THEN [hash |-> hash, executablePath |-> executablePath]
                   ELSE cacheFile.map[k]]]

\* an update that writes the new entry alone
updateCache_Fresh(cacheKey, hash, executablePath) ==
  [ok |-> TRUE,
   map |-> [k \in {cacheKey} |-> [hash |-> hash, executablePath |-> executablePath]]]

\* compilation.ts: updateCache, the content written to cache.json
updateCache(cacheKey, hash, executablePath) ==
  LET old == IF cacheFile.ok THEN cacheFile.map ELSE << >>
      entry == [hash |-> hash, executablePath |-> executablePath]
  IN  [ok |-> TRUE,
       map |-> [k \in (DOMAIN old) \cup {cacheKey} |->
                  IF k = cacheKey THEN entry ELSE old[k]]]

\* compilation.ts: executeCompilation; the compiler runs, and on success the
\* artifact exists and the cache is updated
executeCompilation(sourceFile, compilerCommand, hash, cacheKey) ==
  LET executablePath == ExecutablePath(sourceFile, hash)
      ok == compilerCommand \in installed /\ Compiles(ReadSource(sourceFile).bytes)
  IN  IF ok
      THEN [res |-> "path", path |-> executablePath, ran |-> TRUE, wrote |-> TRUE,
            cache |-> updateCache(cacheKey, hash, executablePath),
            disk |-> disk \cup {executablePath}]
      ELSE [res |-> "null", path |-> << >>, ran |-> TRUE, wrote |-> FALSE,
            cache |-> cacheFile, disk |-> disk]

Unchanged(res) ==
  [res |-> res, path |-> << >>, ran |-> FALSE, wrote |-> FALSE,
   cache |-> cacheFile, disk |-> disk]

\* a request that hands out a path without resolving a compiler or compiling
getExecutable_Optimistic(sourceFile, config) ==
  [Unchanged("path") EXCEPT !.path = ExecutablePath(sourceFile, << >>)]

\* compilation.ts: getExecutable. The result says how the request ended
\* ("path", "null", or "throw" when reading the source fails) and what it
\* left on disk.
getExecutable(sourceFile, config) ==
  LET compilerCommand == resolveCompiler(Get(config, "compiler", << >>))
      finalFlags == FinalFlags(compilerCommand, Get(config, "compilerFlags", << >>))
      src == ReadSource(sourceFile)
      hash == ProfileHash(src.bytes, compilerCommand, finalFlags)
      cacheKey == CacheKey(sourceFile, compilerCommand)
      cached == findCachedExecutable(cacheKey, hash)
  IN  IF compilerCommand = << >> THEN Unchanged("null")
      ELSE IF ~src.exists THEN Unchanged("throw")
      ELSE IF cached # << >> THEN [Unchanged("path") EXCEPT !.path = cached]
      ELSE executeCompilation(sourceFile, compilerCommand, hash, cacheKey)

\* ------------------------------------------------------------------------
\* language.ts and execution.ts: the language-aware preparation of a source
\* ------------------------------------------------------------------------
MAIN_JAVA == <<"M", "a", "i", "n", ".", "j", "a", "v", "a">>
JAVAC == <<"j", "a", "v", "a", "c">>
JAVA == <<"j", "a", "v", "a">>
PYTHON3 == <<"p", "y", "t", "h", "o", "n", "3">>
PYTHON == <<"p", "y", "t", "h", "o", "n">>

\* path.extname
Extname(p) == IF LastDot(p) <= 1 THEN << >> ELSE SubSeq(p, LastDot(p), Len(p))

\* language.ts: LANGUAGES
LANGUAGES ==
  << [id |-> "cpp", type |-> "compiled",
      extensions |-> {<<".", "c", "p", "p">>, <<".", "c", "c">>, <<".", "c", "x", "x">>}],
     [id |-> "go", extensions |-> {<<".", "g", "o">>}, type |-> "compiled"],
     [id |-> "rust", extensions |-> {<<".", "r", "s">>}, type |-> "compiled"],
     [id |-> "java", extensions |-> {<<".", "j", "a", "v", "a">>}, type |-> "compiled"],
     [id |-> "python", extensions |-> {<<".", "p", "y">>}, type |-> "interpreted"],
     [id |-> "javascript", extensions |-> {<<".", "j", "s">>}, type |-> "interpreted"],
     [id |-> "typescript", extensions |-> {<<".", "t", "s">>}, type |-> "interpreted"] >>

NoLang == [id |-> "none", extensions |-> {}, type |-> "none"]

\* language.ts: detectLanguage; NoLang stands for null
detectLanguage(sourceFile) ==
  LET extension == Extname(sourceFile)
      found == {j \in 1..Len(LANGUAGES) : extension \in LANGUAGES[j].extensions}
  IN  IF extension = << >> \/ found = {} THEN NoLang
      ELSE LANGUAGES[CHOOSE j \in found : \A k \in found : j <= k]

\* execution.ts: findRuntime, with the commands it probed; cmd << >> is null
RECURSIVE ProbeFrom(_, _)
ProbeFrom(commands, probed) ==
  IF commands = << >> THEN [cmd |-> << >>, probed |-> probed]
  ELSE IF Head(commands) \in installed
       THEN [cmd |-> Head(commands), probed |-> Append(probed, Head(commands))]
       ELSE ProbeFrom(Tail(commands), Append(probed, Head(commands)))

findRuntime(commands) == ProbeFrom(commands, << >>)

\* execution.ts: resolveCompiler, the table `compilers`
COMPILER_CANDIDATES ==
  [cpp |-> <<GPP, CLANGPP>>, go |-> << <<"g", "o">> >>,
   rust |-> << <<"r", "u", "s", "t", "c">> >>, java |-> <<JAVAC>>]

\* execution.ts: handleInterpretedLanguage, the candidates of each language
RUNTIME_CANDIDATES ==
  [python |-> <<PYTHON3, PYTHON>>, javascript |-> << <<"n", "o", "d", "e">> >>,
   typescript |-> << <<"t", "s", "x">> >>]

\* execution.ts: getCompilationProfile, the table `defaultFlags`
DEFAULT_FLAGS ==
  [cpp |-> <<FLAG_O2, FLAG_STD17, FLAG_WALL>>,
   rust |-> << <<"-", "C">>, <<"o", "p", "t", "-", "l", "e", "v", "e", "l", "=", "2">> >>]

\* a resolution that probes the candidates whatever the user configured
resolveCompilerFor_IgnoresOverride(lang, userCompiler) ==
  findRuntime(Get(COMPILER_CANDIDATES, lang.id, << >>))

\* execution.ts: resolveCompiler
resolveCompilerFor(lang, userCompiler) ==
  IF userCompiler # << >> THEN [cmd |-> userCompiler, probed |-> << >>]
  ELSE findRuntime(Get(COMPILER_CANDIDATES, lang.id, << >>))

\* execution.ts: getCompilationProfile, the final flags
FinalFlagsFor(lang, userFlags) == Get(DEFAULT_FLAGS, lang.id, << >>) \o userFlags

\* path.dirname of a relative path
RECURSIVE LastSlash(_)
LastSlash(s) ==
  IF s = << >> THEN 0
  ELSE IF s[Len(s)] = "/" THEN Len(s)
  ELSE LastSlash(SubSeq(s, 1, Len(s) - 1))

Dirname(p) ==
  IF LastSlash(p) = 0 THEN <<".">>
  ELSE IF LastSlash(p) = 1 THEN <<"/">>
  ELSE SubSeq(p, 1, LastSlash(p) - 1)

\* path.basename(p, ext) of a path without directory part
BasenameExt(p, ext) ==
  IF Len(p) > Len(ext) /\ SubSeq(p, Len(p) - Len(ext) + 1, Len(p)) = ext
  THEN SubSeq(p, 1, Len(p) - Len(ext))
  ELSE p

\* execution.ts: getRunCommand
getRunCommand(executablePath, sourceFile, lang) ==
  IF lang.id = "java"
  THEN <<JAVA, <<"-", "c", "p">>, Dirname(executablePath),
         BasenameExt(sourceFile, <<".", "j", "a", "v", "a">>)>>
  ELSE <<executablePath>>

\* the result of a preparation that touched neither the cache nor the disk
Prepared(res, why) ==
  [res |-> res, why |-> why, path |-> << >>, runArgs |-> << >>, ran |-> FALSE,
   wrote |-> FALSE, read |-> FALSE, cache |-> cacheFile, disk |-> disk,
   compiler |-> << >>, probed |-> << >>, key |-> << >>, hash |-> << >>]

\* a resolution that tries the candidates in the opposite order
handleInterpretedLanguage_Reversed(sourceFile, lang) ==
  LET cands == Get(RUNTIME_CANDIDATES, lang.id, << >>)
      runtime == findRuntime([j \in 1..Len(cands) |-> cands[Len(cands) + 1 - j]])
  IN  IF runtime.cmd = << >>
      THEN [Prepared("null", "noRuntime") EXCEPT !.probed = runtime.probed]
      ELSE [Prepared("path", "interpreted") EXCEPT
              !.path = sourceFile, !.runArgs = <<runtime.cmd, sourceFile>>,
              !.probed = runtime.probed]

\* execution.ts: handleInterpretedLanguage
handleInterpretedLanguage(sourceFile, lang) ==
  LET runtime == findRuntime(Get(RUNTIME_CANDIDATES, lang.id, << >>))
  IN  IF runtime.cmd = << >>
      THEN [Prepared("null", "noRuntime") EXCEPT !.probed = runtime.probed]
      ELSE [Prepared("path", "interpreted") EXCEPT
              !.path = sourceFile, !.runArgs = <<runtime.cmd, sourceFile>>,
              !.probed = runtime.probed]

\* a compilation that records its artifact whether or not the compiler succeeds
executeCompilationFor_RecordsFailure(sourceFile, compiler, hash, lang, cacheKey) ==
  LET executablePath == ExecutablePath(sourceFile, hash)
      ok == compiler \in installed /\ Compiles(ReadSource(sourceFile).bytes)
  IN  [Prepared(IF ok THEN "path" ELSE "null",
                IF ok THEN "compiled" ELSE "compileFailed") EXCEPT
         !.path = IF ok THEN executablePath ELSE << >>,
         !.ran = TRUE, !.wrote = TRUE, !.read = TRUE,
         !.cache = updateCache(cacheKey, hash, executablePath),
         !.disk = disk \cup {executablePath}]

\* execution.ts: executeCompilation (for Java the output directory is made
\* before the compiler runs)
executeCompilationFor(sourceFile, compiler, hash, lang, cacheKey) ==
  LET executablePath == ExecutablePath(sourceFile, hash)
      ok == compiler \in installed /\ Compiles(ReadSource(sourceFile).bytes)
  IN  IF ok
      THEN [Prepared("path", "compiled") EXCEPT
              !.path = executablePath, !.ran = TRUE, !.wrote = TRUE, !.read = TRUE,
              !.cache = updateCache(cacheKey, hash, executablePath),
              !.disk = disk \cup {executablePath}]
      ELSE [Prepared("null", "compileFailed") EXCEPT
              !.ran = TRUE, !.read = TRUE,
              !.disk = IF lang.id = "java" THEN disk \cup {executablePath} ELSE disk]

\* execution.ts: handleCompiledLanguage
handleCompiledLanguage(sourceFile, lang, config) ==
  LET compiler == resolveCompilerFor(lang, Get(config, "compiler", << >>))
      finalFlags == FinalFlagsFor(lang, Get(config, "compilerFlags", << >>))
      src == ReadSource(sourceFile)
      hash == ProfileHash(src.bytes, compiler.cmd, finalFlags)
      cacheKey == CacheKey(sourceFile, compiler.cmd)
      cached == findCachedExecutable(cacheKey, hash)
      r == IF compiler.cmd = << >> THEN Prepared("null", "noCompiler")
           ELSE IF ~src.exists THEN Prepared("throw", "readFile")
           ELSE IF cached # << >>
           THEN [Prepared("path", "cached") EXCEPT !.path = cached, !.read = TRUE]
           ELSE executeCompilationFor(sourceFile, compiler.cmd, hash, lang, cacheKey)
  IN  [r EXCEPT !.compiler = compiler.cmd, !.probed = compiler.probed,
                !.key = IF compiler.cmd = << >> THEN << >> ELSE cacheKey,
                !.hash = IF compiler.cmd = << >> \/ ~src.exists THEN << >> ELSE hash,
                !.runArgs = IF r.res = "path"
                            THEN getRunCommand(r.path, sourceFile, lang) ELSE << >>]

\* execution.ts: prepareForExecution
prepareForExecution(sourceFile, config) ==
  LET lang == detectLanguage(sourceFile)
  IN  IF lang = NoLang THEN Prepared("null", "unsupported")
      ELSE IF lang.type = "interpreted" THEN handleInterpretedLanguage(sourceFile, lang)
      ELSE handleCompiledLanguage(sourceFile, lang, config)

\* ------------------------------------------------------------------------
\* checker.ts: GenesisChecker
\* ------------------------------------------------------------------------
VARIABLES
  script,      \* what this process runs: "check" (a Checker chain), "make" or "cache"
  config,      \* this.config, a partial record
  generator,   \* this.generator: "null" or a generator
  timeoutMs,   \* this.timeoutMs
  pc,          \* where run() is suspended: "idle" when no run is in progress
  run,         \* the locals of the run in progress
  child,       \* the child process the run awaits
  iter,        \* what happened in the current iteration (input, outcomes)
  configured,  \* how the last configure() call ended: "returned" or "threw"
  outcome,     \* how the last run() call ended, "pending" while it is in progress
  report,      \* the arguments of the last reportFailure call
  failFiles,   \* the three failure-artifact files
  calls,       \* per run: generator calls, std runs, target runs, departures
  runs         \* number of run() calls so far

checkerVars == <<config, generator, timeoutMs, pc, run, child, iter, configured, outcome,
                 report, failFiles, calls, runs>>

DefaultTimeoutMs == 5000

\* an execa call without the `timeout` option
NoLimit == 0

DEFAULTS == [compareMode |-> "normalized"]

TLE_TEXT == <<"[", "T", "i", "m", "e", " ", "L", "i", "m", "i", "t", " ",
              "E", "x", "c", "e", "e", "d", "e", "d", "]">>
NO_STDERR_TEXT == <<"[", "N", "o", " ", "s", "t", "d", "e", "r", "r", "]">>

\* what the artifact files hold when an earlier failure left them behind
OLD_TEXT == <<"o", "l", "d">>

\* FAIL_ARTIFACTS: _checker_fail.in, _checker_std.out, _checker_my.out
FAIL_ARTIFACTS == {"in", "std", "my"}

\* the structured values the user's generator may return
GenValues == { Arr(<<Arr(<<Num(3), Num(4)>>)>>), Arr(<<Arr(<< >>)>>) }

\* what a child process may do: exit normally, fail, or (when it was started
\* with a time limit) be killed by the timeout
Ok(out) == [kind |-> "ok", stdout |-> out, stderr |-> << >>]
Crash(out, err) == [kind |-> "crash", stdout |-> out, stderr |-> err]
Killed == [kind |-> "timeout", stdout |-> << >>, stderr |-> << >>]
NotRun == [kind |-> "none", stdout |-> << >>, stderr |-> << >>]

StdOutcomes == {Ok(<<"7">>), Ok(<<"7", SP>>), Crash(<< >>, << >>), Crash(<<"7">>, <<"e">>)}
TargetOutcomes == {Ok(<<"7">>), Ok(<<"8">>), Crash(<< >>, << >>), Crash(<<"8">>, <<"e">>)}

CaseOutcomes == {Ok(<<"3">>), Crash(<< >>, <<"e">>)}

ChildOutcomes(c) ==
  (CASE c.role = "target" -> TargetOutcomes
     [] c.role = "std" -> StdOutcomes
     [] OTHER -> CaseOutcomes)
    \cup (IF c.limit > NoLimit THEN {Killed} ELSE {})

NoChild == [role |-> "none", limit |-> NoLimit, input |-> << >>]

\* every execa call carries the timeout
SpawnLimit_Every(role, ms) == ms

\* the execa call that starts a child: only the target's carries `timeout`
SpawnLimit(role, ms) == IF role = "target" THEN ms ELSE NoLimit

UserConfigs ==
  { [std |-> STD_CPP, target |-> MY_CPP, compareMode |-> "normalized"],
    [std |-> STD_CPP, target |-> MY_CPP, compareMode |-> "exact"],
    [target |-> MY_CPP, compareMode |-> "exact"],
    [std |-> << >>, target |-> MY_CPP, compiler |-> CLANGPP] }

TimeoutArgs == {0, 1000}

\* a configure() that merges before it validates
ConfigureResult_MergeFirst(cfg, userConfig) ==
  [config |-> Merge(cfg, userConfig),
   threw |-> Get(userConfig, "std", << >>) = << >> \/ Get(userConfig, "target", << >>) = << >>]

\* configure(): the stored configuration after the call, and whether it threw
ConfigureResult(cfg, userConfig) ==
  IF Get(userConfig, "std", << >>) = << >> \/ Get(userConfig, "target", << >>) = << >>
  THEN [config |-> cfg, threw |-> TRUE]
  ELSE [config |-> Merge(cfg, userConfig), threw |-> FALSE]

\* a loop whose std catch block does not return
StdVerdict_NoReturn(o) == "runTarget"

\* the std try/catch of the loop: what the iteration does once std has ended
StdVerdict(o) == IF o.kind = "ok" THEN "runTarget" ELSE "RE_STD"

\* a target catch block that does not look at timedOut
TargetVerdict_NoTimedOut(stdOutput, o, mode) ==
  IF o.kind = "ok"
  THEN IF compareOutputs(stdOutput, o.stdout, mode)
       THEN [kind |-> "pass", myOut |-> o.stdout, compared |-> TRUE]
       ELSE [kind |-> "WA", myOut |-> o.stdout, compared |-> TRUE]
  ELSE [kind |-> "RE", compared |-> FALSE,
        myOut |-> IF o.stderr # << >> THEN o.stderr ELSE NO_STDERR_TEXT]

\* the target try/catch of the loop: the failure kind (or "pass"), the text
\* passed to reportFailure as the target's output, and whether compareOutputs
\* was called
TargetVerdict(stdOutput, o, mode) ==
  IF o.kind = "ok"
  THEN IF compareOutputs(stdOutput, o.stdout, mode)
       THEN [kind |-> "pass", myOut |-> o.stdout, compared |-> TRUE]
       ELSE [kind |-> "WA", myOut |-> o.stdout, compared |-> TRUE]
  ELSE IF o.kind = "timeout"
       THEN [kind |-> "TLE", myOut |-> TLE_TEXT, compared |-> FALSE]
       ELSE [kind |-> "RE", compared |-> FALSE,
             myOut |-> IF o.stderr # << >> THEN o.stderr ELSE NO_STDERR_TEXT]

\* a loop that does not return after reporting a wrong answer
NextStep_NoReturnOnWA(kind, i, count) ==
  IF kind \notin {"pass", "WA"} THEN "halt"
  ELSE IF i + 1 <= count THEN "iterate"
  ELSE "succeed"

\* a loop that runs while i < count
NextStep_OffByOne(kind, i, count) ==
  IF kind # "pass" THEN "halt"
  ELSE IF i + 1 < count THEN "iterate"
  ELSE "succeed"

\* the control flow after the target step of iteration i
NextStep(kind, i, count) ==
  IF kind # "pass" THEN "halt"
  ELSE IF i + 1 <= count THEN "iterate"
  ELSE "succeed"

\* a reportFailure that writes the two outputs to each other's file
WriteArtifacts_Swapped(files, input, stdOut, myOut, failAt) ==
  [f \in FAIL_ARTIFACTS |->
     IF f = "in" /\ failAt \notin {1} THEN File(input)
     ELSE IF f = "std" /\ failAt \notin {1, 2} THEN File(myOut)
     ELSE IF f = "my" /\ failAt = 0 THEN File(stdOut)
     ELSE files[f]]

\* reportFailure's three writes; failAt = k > 0: the k-th write fails and the
\* catch skips the remaining ones
WriteArtifacts(files, input, stdOut, myOut, failAt) ==
  [f \in FAIL_ARTIFACTS |->
     IF f = "in" /\ failAt \notin {1} THEN File(input)
     ELSE IF f = "std" /\ failAt \notin {1, 2} THEN File(stdOut)
     ELSE IF f = "my" /\ failAt = 0 THEN File(myOut)
     ELSE files[f]]

reportFailure(testNumber, type, input, stdOut, myOut) ==
  [test |-> testNumber, kind |-> type, input |-> input, stdOut |-> stdOut,
   myOut |-> myOut]

NoReport == reportFailure(0, "none", << >>, << >>, << >>)

\* ------------------------------------------------------------------------
\* A script that only issues compile requests (getExecutable), with the
\* host changing between them: sources are edited, artifacts deleted, the
\* cache file lost.
\* ------------------------------------------------------------------------
VARIABLES
  requests,    \* the compile requests that succeeded so far, each with whether the
               \* cache file was lost since and whether a later compilation for
               \* the same source path and compiler has succeeded
  last         \* the most recent compile request and how it ended
\* In a Maker script the two variables observe the calls of the chain:
\* requests holds the configuration keys the script has specified, last the
\* latest call that touched the queue or looked for the solution.

cacheVars == <<requests, last>>

MaxRequests == 3
MaxPrepares == 2

\* ------------------------------------------------------------------------
\* maker.ts: GenesisMaker. Two implementations of generate() are in the
\* sources: "eager" (maker.ts: every case task is created before the first
\* batch is awaited) and "lazy" (the refactored maker.ts: the tasks of a batch
\* are created when the batch starts).
\* ------------------------------------------------------------------------
VARIABLES
  impl,        \* which implementation of generate() runs
  cpus,        \* os.cpus().length
  mconfig,     \* this.config of the Maker
  caseQueue,   \* this.caseQueue: entries [label]
  mpc,         \* where generate() is suspended: "idle" when not running
  mexe,        \* executablePath of the compiled solution
  tasks,       \* case tasks: [pc, input, stdout, limit]
  batch,       \* 0-based queue position where the awaited batch starts
  results,     \* the results collected so far: [n, label, success]
  outFiles,    \* the files of the output directory: <<n, ext>> -> bytes
  removed,     \* the resolved paths removed recursively so far
  made,        \* the resolved paths created by mkdir so far
  moutcome     \* how generate() ended

makerVars == <<impl, cpus, mconfig, caseQueue, mpc, mexe, tasks, batch, results,
               outFiles, removed, made, moutcome>>

MaxCases == 2

MAIN_CPP == <<"m", "a", "i", "n", ".", "c", "p", "p">>
SOLUTION_CPP == <<"s", "o", "l", "u", "t", "i", "o", "n", ".", "c", "p", "p">>
DATA_DIR == <<"d", "a", "t", "a">>
SRC_DIR == <<"s", "r", "c">>
SIBLING_DIR == <<".", ".", "/", "p", "2">>
CWD == <<"/", "p">>

MAKER_DEFAULTS == [solution |-> STD_CPP, outputDir |-> DATA_DIR, startFrom |-> 1]
SOLUTION_FALLBACKS == <<STD_CPP, MAIN_CPP, SOLUTION_CPP>>
FORBIDDEN_NAMES == {SRC_DIR, <<"n", "o", "d", "e", "_", "m", "o", "d", "u", "l", "e", "s">>,
                    <<".", "g", "i", "t">>, <<".">>, <<".", ".">>, <<"/">>}

\* path helpers (POSIX)
Segments(p) == SelectSeq(Split(p, "/"), NonEmptyLine)

\* path.basename
Basename(p) == IF Segments(p) = << >> THEN << >> ELSE Segments(p)[Len(Segments(p))]

RECURSIVE NormSegs(_, _)
NormSegs(segs, acc) ==
  IF segs = << >> THEN acc
  ELSE IF Head(segs) = <<".">> THEN NormSegs(Tail(segs), acc)
  ELSE IF Head(segs) = <<".", ".">>
       THEN NormSegs(Tail(segs), IF acc = << >> THEN acc ELSE SubSeq(acc, 1, Len(acc) - 1))
  ELSE NormSegs(Tail(segs), Append(acc, Head(segs)))

\* path.resolve against process.cwd()
Resolve(p) ==
  <<"/">> \o Join(NormSegs(IF p # << >> /\ p[1] = "/" THEN Segments(p)
                           ELSE Segments(CWD) \o Segments(p), << >>), <<"/">>)

\* String.prototype.startsWith
StartsWith(str, pre) == Len(pre) <= Len(str) /\ SubSeq(str, 1, Len(pre)) = pre

\* cleanupOutputDirectory: the safety checks; "remove" when all of them pass
SafetyCheck(dir) ==
  IF Basename(dir) \in FORBIDDEN_NAMES THEN "forbidden"
  ELSE IF Resolve(dir) = CWD THEN "root"
  ELSE IF ~StartsWith(Resolve(dir), CWD) THEN "outside"
  ELSE "remove"

RECURSIVE FirstExisting(_)
FirstExisting(files) ==
  IF files = << >> THEN << >>
  ELSE IF ReadSource(Head(files)).exists THEN Head(files)
  ELSE FirstExisting(Tail(files))

\* findSolutionFile; << >> stands for null
findSolutionFile(cfg) ==
  FirstExisting(IF cfg.solution = MAKER_DEFAULTS.solution THEN SOLUTION_FALLBACKS
                ELSE <<cfg.solution>>)

\* a cleanup for which every file of .genesis is stale
cleanupStaleCache_KeepsNone == {}

\* cleanupStaleCache: the artifacts left in .genesis
cleanupStaleCache ==
  IF cacheFile.ok
  THEN disk \cap {cacheFile.map[k].executablePath : k \in DOMAIN cacheFile.map}
  ELSE disk

MakerConfigs ==
  { [outputDir |-> SRC_DIR],
    [solution |-> GONE_CPP],
    [compiler |-> GPP12],
    [solution |-> STD_CPP, outputDir |-> SIBLING_DIR, startFrom |-> 3] }

\* what a case generator does when called: returns a value or throws
Returns(v) == [threw |-> FALSE, value |-> v]
Throws == [threw |-> TRUE, value |-> Null]
MakerGenResults ==
  {Returns(Arr(<<Arr(<<Num(1), Num(2)>>)>>)), Returns(Arr(<<Arr(<< >>)>>)), Throws}

\* a case task: where it is, the value its generator returned, the formatted
\* input, what the child got on stdin, the stdout captured, the time limit of
\* the child, how the child ended, and the files the task has written
QueuedTask == [pc |-> "queued", raw |-> Null, input |-> << >>, stdin |-> << >>,
               stdout |-> << >>, limit |-> NoLimit, exit |-> "none", wrote |-> {}]

\* a task that writes the generator's value as one line
StartedTask_FormatLine(g) ==
  IF g.threw THEN [QueuedTask EXCEPT !.pc = "failed"]
  ELSE [QueuedTask EXCEPT !.pc = "writeIn", !.raw = g.value,
                          !.input = formatLine(g.value)]

\* generateSingleCase up to its first await: call the generator, format
StartedTask(g) ==
  IF g.threw THEN [QueuedTask EXCEPT !.pc = "failed"]
  ELSE [QueuedTask EXCEPT !.pc = "writeIn", !.raw = g.value,
                          !.input = formatData(g.value)]

\* a numbering that gives every case the first number
CaseNumber_First(cfg, i) == cfg.startFrom

\* the case number of the entry at 0-based queue position i
CaseNumber(cfg, i) == cfg.startFrom + i

Finished(t) == t.pc \in {"ok", "failed"}

\* the 1-based task indexes of the batch that starts at 0-based position b
BatchOf(b, total) == {j \in 1..total : b < j /\ j <= b + cpus}

vars == <<fsVars, script, checkerVars, cacheVars, makerVars>>

\* iter: the iteration number, the generator's value, the outcomes of the two
\* children, and the mode compareOutputs was called with ("none": not called)
NoIter == [n |-> 0, raw |-> Null, std |-> NotRun, tgt |-> NotRun, mode |-> "none"]
\* calls: per run, the number of generator calls, std runs and target runs, the
\* iterations where the target departed or std crashed, the number of artifact
\* writes attempted, which of the three failed (0: none), and what the
\* artifact files held when the run started
NoCalls == [gen |-> 0, std |-> 0, target |-> 0, departed |-> {}, stdCrashed |-> {},
            writes |-> 0, failAt |-> 0, before |-> [f \in FAIL_ARTIFACTS |-> NoFile]]
Attempted(failAt) == IF failAt = 0 THEN Cardinality(FAIL_ARTIFACTS) ELSE failAt
NoRun == [count |-> 0, i |-> 0, std |-> << >>, target |-> << >>, cfg |-> << >>,
          stdPath |-> << >>, targetPath |-> << >>, input |-> << >>,
          stdOutput |-> << >>, mode0 |-> "none", timeout0 |-> 0]
Ended(result, why) == [result |-> result, why |-> why]

\* the state of the file system after a compile request r
AfterCompile(r) ==
  /\ cacheFile' = r.cache
  /\ disk' = r.disk
  /\ compilerRuns' = compilerRuns + (IF r.ran THEN 1 ELSE 0)
  /\ cacheWrites' = cacheWrites + (IF r.wrote THEN 1 ELSE 0)
  /\ UNCHANGED <<srcFiles, installed>>

\* constructor + the environment the process starts in
InitChecker ==
  /\ config = DEFAULTS
  /\ generator = "null"
  /\ timeoutMs = DefaultTimeoutMs
  /\ pc = "idle"
  /\ run = NoRun
  /\ child = NoChild
  /\ iter = NoIter
  /\ configured = "none"
  /\ outcome = Ended("none", "none")
  /\ report = NoReport
  /\ failFiles = [f \in FAIL_ARTIFACTS |-> File(OLD_TEXT)]
  /\ calls = NoCalls
  /\ runs = 0

InitFs ==
  /\ \E tb \in {<<"q">>, <<"!">>} :
       srcFiles = [f \in {STD_CPP, MY_CPP} |->
                     IF f = STD_CPP THEN File(<<"p">>) ELSE File(tb)]
  /\ installed \in {{GPP}, {}}
  /\ cacheFile = [ok |-> FALSE, map |-> << >>]
  /\ disk = {}
  /\ compilerRuns = 0
  /\ cacheWrites = 0

\* the script has calls left to make: a run is in progress or may still start
Calling == script = "check" /\ (pc # "idle" \/ runs < MaxRuns)

\* configure(userConfig)
Configure(userConfig) ==
  /\ Calling
  /\ LET r == ConfigureResult(config, userConfig) IN
       /\ config' = r.config
       /\ configured' = IF r.threw THEN "threw" ELSE "returned"
  /\ UNCHANGED <<fsVars, script, makerVars, cacheVars, generator, timeoutMs, pc, run,
                 child, iter, outcome, report, failFiles, calls, runs>>

\* gen(generator)
Gen ==
  /\ Calling
  /\ generator' = "g"
  /\ UNCHANGED <<fsVars, script, makerVars, cacheVars, config, timeoutMs, pc, run, child,
                 iter, configured, outcome, report, failFiles, calls, runs>>

\* timeout(ms)
Timeout(ms) ==
  /\ Calling
  /\ timeoutMs' = IF ms > 0 THEN ms ELSE timeoutMs
  /\ UNCHANGED <<fsVars, script, makerVars, cacheVars, config, generator, pc, run, child,
                 iter, configured, outcome, report, failFiles, calls, runs>>

\* run(count), up to its first await
RunStart(count) ==
  /\ script = "check"
  /\ pc = "idle"
  /\ runs < MaxRuns
  /\ runs' = runs + 1
  /\ IF generator = "null"
     THEN /\ outcome' = Ended("returned", "noGenerator")
          /\ UNCHANGED <<pc, run, iter, report, calls>>
     ELSE /\ pc' = "compileStd"
          /\ run' = [NoRun EXCEPT !.count = count,
                                  !.std = Get(config, "std", UNDEFINED_PATH),
                                  !.target = Get(config, "target", UNDEFINED_PATH),
                                  !.cfg = Omit(config, {"std", "target"}),
                                  !.mode0 = config.compareMode,
                                  !.timeout0 = timeoutMs]
          /\ iter' = NoIter
          /\ report' = NoReport
          /\ calls' = [NoCalls EXCEPT !.before = failFiles]
          /\ outcome' = Ended("pending", "none")
  /\ UNCHANGED <<fsVars, script, makerVars, cacheVars, config, generator, timeoutMs, child,
                 failFiles, configured>>

\* the for-loop once `step` is decided: start iteration i (call the
\* generator, format its value, start std), or end the run
LoopHead(r0, c0, it0, i, step) ==
  IF step = "iterate"
  THEN \E raw \in GenValues :
         /\ pc' = "stdRunning"
         /\ run' = [r0 EXCEPT !.i = i, !.input = formatData(raw)]
         /\ iter' = [NoIter EXCEPT !.n = i, !.raw = raw]
         /\ child' = [role |-> "std", limit |-> SpawnLimit("std", timeoutMs),
                      input |-> formatData(raw)]
         /\ calls' = [c0 EXCEPT !.gen = @ + 1, !.std = @ + 1]
         /\ outcome' = outcome
  ELSE /\ pc' = "idle"
       /\ run' = r0
       /\ iter' = it0
       /\ child' = NoChild
       /\ calls' = c0
       /\ outcome' = Ended("returned", IF step = "succeed" THEN "passed" ELSE "failed")

\* const stdPath = await getExecutable(std, compilerConfig)
CompileStd ==
  /\ pc = "compileStd"
  /\ LET r == getExecutable(run.std, run.cfg) IN
       /\ AfterCompile(r)
       /\ IF r.res = "path"
          THEN /\ pc' = "compileTarget"
               /\ run' = [run EXCEPT !.stdPath = r.path]
               /\ outcome' = outcome
          ELSE /\ pc' = "idle"
               /\ run' = run
               /\ outcome' = IF r.res = "throw"
                             THEN Ended("rejected", "readSource")
                             ELSE Ended("returned", "compileStdFailed")
  /\ UNCHANGED <<script, makerVars, cacheVars, config, generator, timeoutMs, child, iter,
                 report, configured, failFiles, calls, runs>>

\* const targetPath = await getExecutable(target, compilerConfig), then the
\* loop up to its first await
CompileTarget ==
  /\ pc = "compileTarget"
  /\ LET r == getExecutable(run.target, run.cfg) IN
       /\ AfterCompile(r)
       /\ IF r.res = "path"
          THEN LoopHead([run EXCEPT !.targetPath = r.path], calls, iter, 1,
                        NextStep("pass", 0, run.count))
          ELSE /\ pc' = "idle"
               /\ outcome' = IF r.res = "throw"
                             THEN Ended("rejected", "readSource")
                             ELSE Ended("returned", "compileTargetFailed")
               /\ UNCHANGED <<run, child, iter, calls>>
  /\ UNCHANGED <<script, makerVars, cacheVars, config, generator, timeoutMs, report,
                 failFiles, configured, runs>>

\* std has ended: either start the target, or report RE_STD and return
StdDone ==
  /\ pc = "stdRunning"
  /\ \E o \in ChildOutcomes(child), failAt \in 0..3 :
       /\ IF StdVerdict(o) = "runTarget"
          THEN /\ failAt = 0
               /\ pc' = "targetRunning"
               /\ run' = [run EXCEPT !.stdOutput = o.stdout]
               /\ iter' = [iter EXCEPT !.std = o]
               /\ child' = [role |-> "target", limit |-> SpawnLimit("target", timeoutMs),
                             input |-> run.input]
               /\ calls' = [calls EXCEPT !.target = @ + 1,
                              !.stdCrashed = IF o.kind = "ok" THEN @ ELSE @ \cup {run.i}]
               /\ UNCHANGED <<outcome, report, failFiles>>
          ELSE /\ pc' = "idle"
               /\ iter' = [iter EXCEPT !.std = o]
               /\ child' = NoChild
               /\ calls' = [calls EXCEPT !.stdCrashed = @ \cup {run.i},
                                          !.writes = @ + Attempted(failAt),
                                          !.failAt = failAt]
               /\ report' = reportFailure(run.i, "RE_STD", run.input, o.stderr, << >>)
               /\ failFiles' = WriteArtifacts(failFiles, run.input, o.stderr, << >>, failAt)
               /\ outcome' = Ended("returned", "failed")
               /\ run' = run
  /\ UNCHANGED <<fsVars, script, makerVars, cacheVars, config, generator, timeoutMs,
                 configured, runs>>

\* whether the target's outcome departs from std's output under `mode`
Departs(stdOutput, o, mode) ==
  o.kind # "ok" \/ ~compareOutputs(stdOutput, o.stdout, mode)

\* the target has ended (or was killed by the timeout): compare, report a
\* failure, and go on with the loop
TargetDone ==
  /\ pc = "targetRunning"
  /\ \E o \in ChildOutcomes(child), failAt \in 0..3 :
       LET mode == config.compareMode
           v == TargetVerdict(run.stdOutput, o, mode)
           step == NextStep(v.kind, run.i, run.count)
           it == [iter EXCEPT !.tgt = o, !.mode = IF v.compared THEN mode ELSE "none"]
           c == [calls EXCEPT
                   !.departed = IF Departs(run.stdOutput, o, mode) THEN @ \cup {run.i} ELSE @,
                   !.writes = IF v.kind = "pass" THEN @ ELSE @ + Attempted(failAt),
                   !.failAt = failAt]
       IN  /\ IF v.kind = "pass"
              THEN /\ failAt = 0
                   /\ UNCHANGED <<report, failFiles>>
              ELSE /\ report' = reportFailure(run.i, v.kind, run.input, run.stdOutput, v.myOut)
                   /\ failFiles' = WriteArtifacts(failFiles, run.input, run.stdOutput,
                                                  v.myOut, failAt)
           /\ LoopHead(run, c, it, run.i + 1, step)
  /\ UNCHANGED <<fsVars, script, makerVars, cacheVars, config, generator, timeoutMs,
                 configured, runs>>

NextChecker ==
  \/ \E uc \in UserConfigs : Configure(uc)
  \/ Gen
  \/ \E ms \in TimeoutArgs : Timeout(ms)
  \/ \E n \in 0..MaxCount : RunStart(n)
  \/ CompileStd
  \/ CompileTarget
  \/ StdDone
  \/ TargetDone

\* ------------------------------------------------------------------------
\* maker.ts: the operations of GenesisMaker
\* ------------------------------------------------------------------------
NoFiles == << >>

InitMaker ==
  /\ impl \in {"eager", "lazy"}
  /\ cpus \in {1, 2}
  /\ mconfig = MAKER_DEFAULTS
  /\ caseQueue = << >>
  /\ mpc = "idle"
  /\ mexe = << >>
  /\ tasks = << >>
  /\ batch = 0
  /\ results = << >>
  /\ outFiles = (<<9, "in">> :> OLD_TEXT)
  /\ removed = {}
  /\ made = {}
  /\ moutcome = Ended("none", "none")

Chaining == script = "make" /\ mpc = "idle" /\ moutcome.result = "none"

\* what a Maker script observes of a call: the queue before a cases(count)
\* call, the file findSolutionFile returned
MakerCall(op, n, before, chosen) ==
  [op |-> op, n |-> n, before |-> before, chosen |-> chosen]

NoCall == MakerCall("none", 0, << >>, << >>)

\* case(...): one entry is pushed
PushCase(queue, label) == Append(queue, [label |-> label])

\* a cases() that pushes one entry whatever the count
PushCases_One(queue, count) == Append(queue, [label |-> << >>])

\* cases(count, generator): the loop pushes count anonymous entries
PushCases(queue, count) == queue \o [j \in 1..count |-> [label |-> << >>]]

\* configure(userConfig)
MConfigure(userConfig) ==
  /\ Chaining
  /\ mconfig' = Merge(mconfig, userConfig)
  /\ requests' = requests \cup DOMAIN userConfig
  /\ UNCHANGED <<fsVars, script, checkerVars, last, impl, cpus, caseQueue, mpc, mexe,
                 tasks, batch, results, outFiles, removed, made, moutcome>>

\* case(label, generator) and case(generator): label << >> when anonymous
MCase(label) ==
  /\ Chaining
  /\ Len(caseQueue) < MaxCases
  /\ caseQueue' = PushCase(caseQueue, label)
  /\ last' = MakerCall("case", 1, << >>, << >>)
  /\ UNCHANGED <<fsVars, script, checkerVars, requests, impl, cpus, mconfig, mpc, mexe,
                 tasks, batch, results, outFiles, removed, made, moutcome>>

\* cases(count, generator)
MCases(count) ==
  /\ Chaining
  /\ Len(caseQueue) + count <= MaxCases
  /\ caseQueue' = PushCases(caseQueue, count)
  /\ last' = MakerCall("cases", count, caseQueue, << >>)
  /\ UNCHANGED <<fsVars, script, checkerVars, requests, impl, cpus, mconfig, mpc, mexe,
                 tasks, batch, results, outFiles, removed, made, moutcome>>

\* generate() up to the compile step: cleanupOutputDirectory (and, in the
\* lazy implementation, the mkdir of prepareEnvironment)
MGenerate ==
  /\ Chaining
  /\ \E rmOk \in BOOLEAN, mkdirOk \in BOOLEAN :
       LET dir == mconfig.outputDir
           check == SafetyCheck(dir)
       IN  IF check # "remove"
           THEN /\ moutcome' = Ended("returned", check)
                /\ UNCHANGED <<mpc, outFiles, removed, made>>
           ELSE IF ~rmOk
           THEN /\ moutcome' = Ended("returned", "rmFailed")
                /\ UNCHANGED <<mpc, outFiles, removed, made>>
           ELSE /\ removed' = removed \cup {Resolve(dir)}
                /\ outFiles' = NoFiles
                /\ IF impl = "lazy" /\ ~mkdirOk
                   THEN /\ moutcome' = Ended("rejected", "mkdir")
                        /\ UNCHANGED <<mpc, made>>
                   ELSE /\ moutcome' = Ended("pending", "none")
                        /\ mpc' = IF impl = "eager" THEN "staleCache" ELSE "compile"
                        /\ made' = IF impl = "lazy" THEN made \cup {Resolve(dir)} ELSE made
  /\ UNCHANGED <<fsVars, script, checkerVars, cacheVars, impl, cpus, mconfig, caseQueue,
                 mexe, tasks, batch, results>>

\* generate(), eager implementation: cleanupStaleCache
MCleanupStaleCache ==
  /\ script = "make"
  /\ mpc = "staleCache"
  /\ disk' = cleanupStaleCache
  /\ mpc' = "compile"
  /\ UNCHANGED <<srcFiles, installed, cacheFile, compilerRuns, cacheWrites, script,
                 checkerVars, cacheVars, impl, cpus, mconfig, caseQueue, mexe, tasks,
                 batch, results, outFiles, removed, made, moutcome>>

\* the tasks in S are created: each calls its generator
StartTasks(S, gens) ==
  [j \in 1..Len(caseQueue) |->
     IF j \in S THEN StartedTask(gens[j])
     ELSE IF j \in DOMAIN tasks THEN tasks[j] ELSE QueuedTask]

\* the summary generate() prints once every batch has been awaited
Summary(res) ==
  IF \A j \in 1..Len(res) : res[j].success THEN "complete" ELSE "withErrors"

\* generate(): find the solution, compile it, create the first tasks
MCompile ==
  /\ script = "make"
  /\ mpc = "compile"
  /\ LET sourceFile == findSolutionFile(mconfig)
         r == getExecutable(sourceFile, mconfig)
         total == Len(caseQueue)
     IN  IF sourceFile = << >>
         THEN /\ moutcome' = Ended("returned", "noSolution")
              /\ mpc' = "idle"
              /\ UNCHANGED <<fsVars, mexe, tasks, made>>
         ELSE /\ AfterCompile(r)
              /\ IF r.res # "path"
                 THEN /\ moutcome' = Ended(IF r.res = "null" THEN "returned" ELSE "rejected",
                                           "compileFailed")
                      /\ mpc' = "idle"
                      /\ UNCHANGED <<mexe, tasks, made>>
                 ELSE /\ mexe' = r.path
                      /\ IF impl = "eager"
                         THEN \E mkdirOk \in BOOLEAN :
                                IF ~mkdirOk
                                THEN /\ moutcome' = Ended("rejected", "mkdir")
                                     /\ mpc' = "idle"
                                     /\ UNCHANGED <<tasks, made>>
                                ELSE \E gens \in [1..total -> MakerGenResults] :
                                       /\ made' = made \cup {Resolve(mconfig.outputDir)}
                                       /\ tasks' = StartTasks(1..total, gens)
                                       /\ mpc' = IF total = 0 THEN "idle" ELSE "tasks"
                                       /\ moutcome' = IF total = 0
                                                      THEN Ended("returned", "complete")
                                                      ELSE moutcome
                         ELSE \E gens \in [BatchOf(0, total) -> MakerGenResults] :
                                /\ tasks' = StartTasks(BatchOf(0, total), gens)
                                /\ mpc' = IF total = 0 THEN "idle" ELSE "tasks"
                                /\ moutcome' = IF total = 0
                                               THEN Ended("returned", "noCases")
                                               ELSE moutcome
                                /\ UNCHANGED made
  /\ batch' = 0
  /\ last' = MakerCall("findSolutionFile", 0, << >>, findSolutionFile(mconfig))
  /\ UNCHANGED <<script, checkerVars, requests, impl, cpus, mconfig, caseQueue, results,
                 outFiles, removed>>

\* generateSingleCase resumes after writing <caseNumber>.in: start the solution
MTaskInWritten(j) ==
  /\ script = "make"
  /\ j \in DOMAIN tasks
  /\ tasks[j].pc = "writeIn"
  /\ \E ok \in BOOLEAN :
       IF ok
       THEN /\ outFiles' = (<<CaseNumber(mconfig, j - 1), "in">> :> tasks[j].input) @@ outFiles
            /\ tasks' = [tasks EXCEPT ![j].pc = "running",
                                      ![j].limit = NoLimit,
                                      ![j].stdin = tasks[j].input,
                                      ![j].wrote = @ \cup {<<CaseNumber(mconfig, j - 1), "in">>}]
       ELSE /\ tasks' = [tasks EXCEPT ![j].pc = "failed"]
            /\ UNCHANGED outFiles
  /\ UNCHANGED <<fsVars, script, checkerVars, cacheVars, impl, cpus, mconfig, caseQueue,
                 mpc, mexe, batch, results, removed, made, moutcome>>

\* the solution run of a case has ended
MTaskExited(j) ==
  /\ script = "make"
  /\ j \in DOMAIN tasks
  /\ tasks[j].pc = "running"
  /\ \E o \in ChildOutcomes([role |-> "case", limit |-> tasks[j].limit]) :
       tasks' = IF o.kind = "ok"
                THEN [tasks EXCEPT ![j].pc = "writeOut", ![j].stdout = o.stdout,
                                   ![j].exit = o.kind]
                ELSE [tasks EXCEPT ![j].pc = "failed", ![j].exit = o.kind]
  /\ UNCHANGED <<fsVars, script, checkerVars, cacheVars, impl, cpus, mconfig, caseQueue,
                 mpc, mexe, batch, results, outFiles, removed, made, moutcome>>

\* generateSingleCase resumes after writing <caseNumber>.out
MTaskOutWritten(j) ==
  /\ script = "make"
  /\ j \in DOMAIN tasks
  /\ tasks[j].pc = "writeOut"
  /\ \E ok \in BOOLEAN :
       IF ok
       THEN /\ outFiles' = (<<CaseNumber(mconfig, j - 1), "out">> :> tasks[j].stdout) @@ outFiles
            /\ tasks' = [tasks EXCEPT ![j].pc = "ok",
                                      ![j].wrote = @ \cup {<<CaseNumber(mconfig, j - 1), "out">>}]
       ELSE /\ tasks' = [tasks EXCEPT ![j].pc = "failed"]
            /\ UNCHANGED outFiles
  /\ UNCHANGED <<fsVars, script, checkerVars, cacheVars, impl, cpus, mconfig, caseQueue,
                 mpc, mexe, batch, results, removed, made, moutcome>>

\* results that list the successful tasks only
RECURSIVE BatchResults_OnlyOk(_, _)
BatchResults_OnlyOk(lo, hi) ==
  IF lo > hi THEN << >>
  ELSE (IF tasks[lo].pc = "ok"
        THEN <<[n |-> CaseNumber(mconfig, lo - 1), label |-> caseQueue[lo].label,
                success |-> TRUE]>>
        ELSE << >>) \o BatchResults_OnlyOk(lo + 1, hi)

\* the results of the tasks lo..hi, in queue order
RECURSIVE BatchResults(_, _)
BatchResults(lo, hi) ==
  IF lo > hi THEN << >>
  ELSE <<[n |-> CaseNumber(mconfig, lo - 1), label |-> caseQueue[lo].label,
          success |-> tasks[lo].pc = "ok"]>> \o BatchResults(lo + 1, hi)

\* Promise.all of the awaited batch resolves: collect, then the next batch
MBatchDone ==
  /\ script = "make"
  /\ mpc = "tasks"
  /\ LET total == Len(caseQueue)
         next == batch + cpus
         res == results \o BatchResults(batch + 1, IF next < total THEN next ELSE total)
     IN  /\ \A j \in BatchOf(batch, total) : Finished(tasks[j])
         /\ results' = res
         /\ IF next >= total
            THEN /\ mpc' = "idle"
                 /\ moutcome' = Ended("returned", Summary(res))
                 /\ UNCHANGED <<batch, tasks>>
            ELSE /\ batch' = next
                 /\ UNCHANGED <<mpc, moutcome>>
                 /\ IF impl = "eager"
                    THEN UNCHANGED tasks
                    ELSE \E gens \in [BatchOf(next, total) -> MakerGenResults] :
                           tasks' = StartTasks(BatchOf(next, total), gens)
  /\ UNCHANGED <<fsVars, script, checkerVars, cacheVars, impl, cpus, mconfig, caseQueue,
                 mexe, outFiles, removed, made>>

CaseLabels == {<< >>, <<"e", "d", "g", "e">>}

NextMaker ==
  \/ \E uc \in MakerConfigs : MConfigure(uc)
  \/ \E label \in CaseLabels : MCase(label)
  \/ \E n \in -1..MaxCases : MCases(n)
  \/ MGenerate
  \/ MCleanupStaleCache
  \/ MCompile
  \/ \E j \in 1..MaxCases : MTaskInWritten(j)
  \/ \E j \in 1..MaxCases : MTaskExited(j)
  \/ \E j \in 1..MaxCases : MTaskOutWritten(j)
  \/ MBatchDone

\* ------------------------------------------------------------------------
\* Compile requests
\* ------------------------------------------------------------------------
\* the environment acts between the requests of a script
Requesting == script \in {"cache", "race"} \/ (script = "exec" /\ last.n < MaxPrepares)

NoLast == [n |-> 0, res |-> "none", path |-> << >>, ran |-> FALSE, cacheSame |-> TRUE,
           earlier |-> {}, recorded |-> {}, cleaned |-> {}]

InitCacheVars == requests = {} /\ last = NoLast

CacheSources == {STD_CPP, MY_CPP}
CacheConfigs == {<< >>, [compilerFlags |-> <<FLAG_G>>], [compiler |-> CLANGPP]}
SourceBytes == {<<"p">>, <<"q">>}

\* getExecutable(sourceFile, config) is called and awaited
Request(sourceFile, cfg) ==
  /\ script = "cache"
  /\ last.n < MaxRequests
  /\ LET r == getExecutable(sourceFile, cfg)
         cmd == resolveCompiler(Get(cfg, "compiler", << >>))
         flags == Get(cfg, "compilerFlags", << >>)
         bytes == ReadSource(sourceFile).bytes
         this == [source |-> sourceFile, bytes |-> bytes, compiler |-> cmd,
                  flags |-> flags, path |-> r.path, lost |-> FALSE,
                  replaced |-> FALSE]
         same == {h \in requests : /\ h.source = sourceFile /\ h.bytes = bytes
                                   /\ h.compiler = cmd /\ h.flags = flags
                                   /\ h.path \in disk /\ ~h.lost}
     IN  /\ AfterCompile(r)
         /\ last' = [n |-> last.n + 1, res |-> r.res, path |-> r.path, ran |-> r.ran,
                     cacheSame |-> (r.cache = cacheFile /\ ~r.wrote),
                     earlier |-> {h.path : h \in same},
                     recorded |-> {h.path : h \in {g \in same : ~g.replaced}},
                     cleaned |-> {}]
         /\ requests' =
              IF r.res # "path" THEN requests
              ELSE {[h EXCEPT !.replaced = @ \/ (r.wrote /\ h.source = sourceFile
                                                    /\ h.compiler = cmd)] : h \in requests}
                     \cup {this}
  /\ UNCHANGED <<script, checkerVars, makerVars>>

\* the user edits a source file
EditSource(sourceFile, bytes) ==
  /\ Requesting
  /\ ReadSource(sourceFile).bytes # bytes
  /\ srcFiles' = [srcFiles EXCEPT ![sourceFile] = File(bytes)]
  /\ UNCHANGED <<installed, cacheFile, disk, compilerRuns, cacheWrites, script,
                 checkerVars, makerVars, cacheVars>>

\* an artifact is deleted from .genesis
DeleteArtifact(path) ==
  /\ Requesting
  /\ path \in disk
  /\ disk' = disk \ {path}
  /\ UNCHANGED <<srcFiles, installed, cacheFile, compilerRuns, cacheWrites, script,
                 checkerVars, makerVars, cacheVars>>

\* cache.json is deleted or left unparsable
LoseCache ==
  /\ Requesting
  /\ cacheFile.ok
  /\ cacheFile' = [ok |-> FALSE, map |-> << >>]
  /\ requests' = {[h EXCEPT !.lost = TRUE] : h \in requests}
  /\ UNCHANGED <<srcFiles, installed, disk, compilerRuns, cacheWrites, script, checkerVars,
                 makerVars, last>>

\* a Maker of the same directory runs cleanupStaleCache between two
\* requests: the files it means to unlink are unlinked, or an unlink fails
\* and the ones after it stay
CleanupStaleCache ==
  /\ script = "cache"
  /\ \E gone \in SUBSET (disk \ cleanupStaleCache) :
       /\ disk' = disk \ gone
       /\ last' = [last EXCEPT !.cleaned = gone]
  /\ UNCHANGED <<srcFiles, installed, cacheFile, compilerRuns, cacheWrites, script,
                 checkerVars, makerVars, requests>>

NextCache ==
  \/ \E sf \in CacheSources, cfg \in CacheConfigs : Request(sf, cfg)
  \/ CleanupStaleCache
  \/ \E bytes \in SourceBytes : EditSource(STD_CPP, bytes)
  \/ \E path \in disk : DeleteArtifact(path)
  \/ LoseCache

InitCache ==
  /\ script = "cache"
  /\ InitFs
  /\ InitChecker
  /\ InitMaker
  /\ InitCacheVars
  /\ impl = "lazy" /\ cpus = 1

SpecCache == InitCache /\ [][NextCache]_vars

\* ------------------------------------------------------------------------
\* Preparations: prepareForExecution called by a script
\* ------------------------------------------------------------------------
NoPrep ==
  [n |-> 0, source |-> << >>, override |-> << >>, flags |-> << >>, bytes |-> << >>,
   lang |-> "none", type |-> "none", res |-> "none", why |-> "none", path |-> << >>,
   runArgs |-> << >>, ran |-> FALSE, wrote |-> FALSE, read |-> FALSE,
   compiler |-> << >>, probed |-> << >>, key |-> << >>, hash |-> << >>,
   cacheBefore |-> [ok |-> FALSE, map |-> << >>], diskBefore |-> {},
   cacheAfter |-> [ok |-> FALSE, map |-> << >>]]

\* the calls a script makes: a source and the compiler settings of its config
ExecRequests ==
  ({STD_CPP} \X {<< >>, [compilerFlags |-> << <<"-", "D">>, <<"X">> >>],
                 [compilerFlags |-> << <<"-", "D", "X">> >>], [compiler |-> CLANGPP]})
    \cup ({MAIN_JAVA, <<"g", "e", "n", ".", "p", "y">>, <<"n", ".", "t", "x", "t">>} \X {<< >>})

\* prepareForExecution(sourceFile, config) is called and awaited
Prepare(sourceFile, cfg) ==
  /\ script = "exec"
  /\ last.n < MaxPrepares
  /\ LET r == prepareForExecution(sourceFile, cfg)
         lang == detectLanguage(sourceFile)
         this == [n |-> last.n + 1, source |-> sourceFile,
                  bytes |-> ReadSource(sourceFile).bytes, compiler |-> r.compiler,
                  flags |-> Get(cfg, "compilerFlags", << >>), key |-> r.key,
                  hash |-> r.hash, path |-> r.path, lost |-> FALSE,
                  replaced |-> FALSE]
     IN  /\ AfterCompile(r)
         /\ last' = [n |-> last.n + 1, source |-> sourceFile,
                     override |-> Get(cfg, "compiler", << >>),
                     flags |-> Get(cfg, "compilerFlags", << >>),
                     bytes |-> ReadSource(sourceFile).bytes,
                     lang |-> lang.id, type |-> lang.type, res |-> r.res,
                     why |-> r.why, path |-> r.path, runArgs |-> r.runArgs,
                     ran |-> r.ran, wrote |-> r.wrote, read |-> r.read,
                     compiler |-> r.compiler, probed |-> r.probed, key |-> r.key,
                     hash |-> r.hash, cacheBefore |-> cacheFile, diskBefore |-> disk,
                     cacheAfter |-> r.cache]
         /\ requests' =
              IF ~r.wrote THEN requests
              ELSE {[h EXCEPT !.replaced = @ \/ h.key = r.key] : h \in requests}
                     \cup {this}
  /\ UNCHANGED <<script, checkerVars, makerVars>>

NextExec ==
  \/ \E rq \in ExecRequests : Prepare(rq[1], rq[2])
  \/ \E bytes \in SourceBytes : EditSource(STD_CPP, bytes)
  \/ \E path \in disk : DeleteArtifact(path)
  \/ LoseCache

\* the hosts: which toolchains and interpreters are installed
ExecHosts == {{GPP, CLANGPP, JAVAC, PYTHON3, PYTHON}, {CLANGPP, PYTHON}, {}}

InitExec ==
  /\ script = "exec"
  /\ \E jb \in {<<"j">>, <<"!">>} :
       srcFiles = [f \in {STD_CPP, MAIN_JAVA} |->
                     IF f = STD_CPP THEN File(<<"p">>) ELSE File(jb)]
  /\ installed \in ExecHosts
  /\ cacheFile = [ok |-> FALSE, map |-> << >>]
  /\ disk = {}
  /\ compilerRuns = 0
  /\ cacheWrites = 0
  /\ InitChecker
  /\ InitMaker
  /\ requests = {} /\ last = NoPrep
  /\ impl = "lazy" /\ cpus = 1

SpecExec == InitExec /\ [][NextExec]_vars

\* ------------------------------------------------------------------------
\* Preparations whose awaits let the user edit the source: the source is
\* read for the fingerprint in getCompilationProfile and read again by the
\* compiler that executeCompilation starts. `requests` holds, for the
\* artifacts on disk, the bytes the compiler built them from.
\* ------------------------------------------------------------------------
NoRace == [pc |-> "idle", n |-> 0, source |-> << >>, bytes |-> << >>, compiler |-> << >>,
           flags |-> << >>, key |-> << >>, hash |-> << >>, res |-> "none", why |-> "none",
           path |-> << >>]

\* prepareForExecution(sourceFile, config) is called: it runs up to the
\* compiler's start, or to its return when no compiler is started
RaceProfile(sourceFile, cfg) ==
  /\ script = "race"
  /\ last.pc = "idle"
  /\ last.n < MaxPrepares
  /\ LET r == prepareForExecution(sourceFile, cfg)
         lang == detectLanguage(sourceFile)
         call == [NoRace EXCEPT !.n = last.n + 1, !.source = sourceFile,
                                !.bytes = ReadSource(sourceFile).bytes,
                                !.compiler = r.compiler,
                                !.flags = FinalFlagsFor(lang, Get(cfg, "compilerFlags", << >>)),
                                !.key = r.key, !.hash = r.hash]
     IN  IF r.ran
         THEN /\ last' = [call EXCEPT !.pc = "compiling"]
              /\ UNCHANGED fsVars
         ELSE /\ last' = [call EXCEPT !.res = r.res, !.why = r.why, !.path = r.path]
              /\ AfterCompile(r)
  /\ UNCHANGED <<script, checkerVars, makerVars, requests>>

\* the compiler has read the source and ended; executeCompilation goes on
\* to its return
RaceCompiled ==
  /\ script = "race"
  /\ last.pc = "compiling"
  /\ LET r == executeCompilationFor(last.source, last.compiler, last.hash,
                                    detectLanguage(last.source), last.key)
     IN  /\ AfterCompile(r)
         /\ last' = [last EXCEPT !.pc = "idle", !.res = r.res, !.why = r.why, !.path = r.path]
         /\ requests' =
              IF r.res # "path" THEN requests
              ELSE {b \in requests : b.path # r.path}
                     \cup {[path |-> r.path, built |-> ReadSource(last.source).bytes,
                            compiler |-> last.compiler, flags |-> last.flags]}
  /\ UNCHANGED <<script, checkerVars, makerVars>>

NextRace ==
  \/ \E cfg \in {<< >>, [compiler |-> CLANGPP]} : RaceProfile(STD_CPP, cfg)
  \/ RaceCompiled
  \/ \E bytes \in SourceBytes \cup {<<"!">>} : EditSource(STD_CPP, bytes)

InitRace ==
  /\ script = "race"
  /\ InitFs
  /\ installed = {GPP} /\ srcFiles[MY_CPP].bytes = <<"q">>
  /\ InitChecker
  /\ InitMaker
  /\ requests = {} /\ last = NoRace
  /\ impl = "lazy" /\ cpus = 1

SpecRace == InitRace /\ [][NextRace]_vars

\* ------------------------------------------------------------------------
\* Applications of the pure functions: compareOutputs and formatData
\* ------------------------------------------------------------------------
MaxLen == 2

\* the texts of at most n characters
RECURSIVE TextsUpTo(_)
TextsUpTo(n) ==
  IF n = 0 THEN {<< >>}
  ELSE LET shorter == TextsUpTo(n - 1)
       IN  shorter \cup {Append(t, c) : t \in shorter, c \in {LF, CR, SP, "x"}}

\* the arrays of at most n scalars
RECURSIVE ScalarArraysUpTo(_)
ScalarArraysUpTo(n) ==
  IF n = 0 THEN {<< >>}
  ELSE LET shorter == ScalarArraysUpTo(n - 1)
       IN  shorter \cup {Append(a, v) : a \in shorter,
                                        v \in {Num(7), Num(12), Str(<<"a">>)}}

\* the inputs of the applications
Texts == TextsUpTo(MaxLen)
ScalarArrays == ScalarArraysUpTo(MaxLen)

\* the top-level elements that are arrays: of scalars (the empty one among
\* them) and of one or two rows, each row an array of scalars
Items ==
  LET rows == {Arr(A) : A \in {<< >>, <<Num(12)>>, <<Num(7), Num(12)>>, <<Str(<<"a">>)>>,
                               <<Str(<<"a">>), Num(7)>>, <<Num(12), Str(<<"a">>)>>}}
  IN  {Arr(A) : A \in ScalarArrays}
        \cup {Arr(<<r>>) : r \in rows} \cup {Arr(<<r1, r2>>) : r1 \in rows, r2 \in rows}

\* the top-level elements before and after the one an application is about
Sides ==
  { << >>, <<Num(7)>>, <<Arr(<< >>)>>, <<Arr(<<Num(7), Num(12)>>)>>,
    <<Arr(<<Str(<<"a">>), Str(<<"b">>)>>)>> }

NoApply == [op |-> "none", a |-> << >>, b |-> << >>, exact |-> TRUE,
            normalized |-> TRUE, data |-> Null, text |-> << >>,
            pre |-> << >>, post |-> << >>]

\* compareOutputs(a, b, mode) is called in each of the two modes; a behaviour
\* is one application
Compare(a, b) ==
  /\ script = "pure"
  /\ last.op = "none"
  /\ last' = [NoApply EXCEPT !.op = "compare", !.a = a, !.b = b,
                             !.exact = compareOutputs(a, b, "exact"),
                             !.normalized = compareOutputs(a, b, "normalized")]
  /\ UNCHANGED <<fsVars, script, checkerVars, makerVars, requests>>

\* formatData(data) is called
Format(data) ==
  /\ script = "pure"
  /\ last.op = "none"
  /\ last' = [NoApply EXCEPT !.op = "format", !.data = data, !.text = formatData(data)]
  /\ UNCHANGED <<fsVars, script, checkerVars, makerVars, requests>>

\* formatData([...pre, item, ...post]) is called
FormatIn(pre, item, post) ==
  /\ script = "pure"
  /\ last.op = "none"
  /\ last' = [NoApply EXCEPT !.op = "formatIn", !.pre = pre, !.data = item, !.post = post,
                             !.text = formatData(Arr(pre \o <<item>> \o post))]
  /\ UNCHANGED <<fsVars, script, checkerVars, makerVars, requests>>

\* formatData(null), formatData(undefined) or formatData([]) is called
FormatEmpty(data) ==
  /\ script = "pure"
  /\ last.op = "none"
  /\ last' = [NoApply EXCEPT !.op = "formatEmpty", !.data = data, !.text = formatData(data)]
  /\ UNCHANGED <<fsVars, script, checkerVars, makerVars, requests>>

NextPure ==
  \/ \E a \in Texts, b \in Texts : Compare(a, b)
  \/ \E A \in ScalarArrays : Format(Arr(<<Arr(A)>>))
  \/ \E pre \in Sides, item \in Items, post \in Sides : FormatIn(pre, item, post)
  \/ \E data \in {Null, Undefined, Arr(<< >>)} : FormatEmpty(data)

InitPure ==
  /\ script = "pure"
  /\ InitFs
  /\ installed = {GPP} /\ srcFiles[MY_CPP].bytes = <<"q">>
  /\ InitChecker
  /\ InitMaker
  /\ requests = {} /\ last = NoApply
  /\ impl = "lazy" /\ cpus = 1

SpecPure == InitPure /\ [][NextPure]_vars

\* ------------------------------------------------------------------------
\* generator.ts: G.graph and the random tree it builds on. A behaviour is
\* one call; the call record is kept in `last`.
\* ------------------------------------------------------------------------
MaxNodes == 2
MaxEdges == 2

\* permutation(n, false) and shuffle: every order may come out
Permutation(n) ==
  {p \in [1..n -> 0..(n - 1)] : \A i \in 1..n, j \in 1..n : p[i] = p[j] => i = j}

Shuffle(arr) ==
  {[i \in 1..Len(arr) |-> arr[p[i] + 1]] : p \in Permutation(Len(arr))}

\* int(min, max): Math.floor(Math.random() * (max - min + 1)) + min
int(min, max) == IF max < min THEN {min} ELSE min..max

\* tree(n, { type: 'random', oneBased: false }) before weights and shift:
\* the node at position i of a permutation is tied to a node before it
RandomTree(n) ==
  IF n <= 1 THEN {<< >>}
  ELSE UNION { Shuffle([i \in 1..(n - 1) |-> <<nodes[i + 1], nodes[par[i] + 1]>>]) :
                 nodes \in Permutation(n),
                 par \in {f \in [1..(n - 1) -> 0..(n - 2)] : \A i \in 1..(n - 1) : f[i] <= i - 1} }

\* `${u},${v}` and key.split(',').map(Number)
EdgeKey(u, v) == NatToStr(u) \o <<",">> \o NatToStr(v)

RECURSIVE StrToNat(_)
StrToNat(str) ==
  IF str = << >> THEN 0
  ELSE 10 * StrToNat(SubSeq(str, 1, Len(str) - 1))
         + (CHOOSE d \in 0..9 : Digit(d) = str[Len(str)])

ParseKey(key) == [j \in 1..Len(Split(key, ",")) |-> StrToNat(Split(key, ",")[j])]

\* addEdge: the edge set after the call (a Set keeps insertion order)
addEdge(edgeSet, u, v, o) ==
  LET key == IF o.directed THEN EdgeKey(u, v)
             ELSE EdgeKey(IF u < v THEN u ELSE v, IF u < v THEN v ELSE u)
  IN  IF (o.noSelfLoops /\ u = v) \/ (\E j \in 1..Len(edgeSet) : edgeSet[j] = key)
      THEN edgeSet
      ELSE Append(edgeSet, key)

RECURSIVE AddEdges(_, _, _)
AddEdges(edgeSet, edges, o) ==
  IF edges = << >> THEN edgeSet
  ELSE AddEdges(addEdge(edgeSet, Head(edges)[1], Head(edges)[2], o), Tail(edges), o)

\* post-processing: the weight is pushed first, then every value of an edge
\* is shifted when oneBased
PostProcess(edges, o) ==
  LET weighed == IF o.weighted = << >> THEN {edges}
                 ELSE {[j \in 1..Len(edges) |-> Append(edges[j], ws[j])] :
                         ws \in [1..Len(edges) -> int(o.weighted[1], o.weighted[2])]}
  IN  {IF o.oneBased THEN [j \in 1..Len(w) |-> [k \in 1..Len(w[j]) |-> w[j][k] + 1]]
       ELSE w : w \in weighed}

\* the values of the options of a call; weighted is << >> (false) or the
\* range [minW, maxW]
GraphOptions ==
  [type : {"simple", "tree", "dag", "bipartite"}, directed : BOOLEAN,
   connected : BOOLEAN, noSelfLoops : BOOLEAN, oneBased : BOOLEAN,
   weighted : {<< >>, <<5, 6>>}]

\* no call yet; o holds the defaults of the options
NoGraph == [pc |-> "none", n |-> 0, m |-> 0,
            o |-> [type |-> "simple", directed |-> FALSE, weighted |-> << >>,
                   connected |-> FALSE, noSelfLoops |-> TRUE, oneBased |-> TRUE],
            nodes |-> << >>, part |-> 0,
            edgeSet |-> << >>, result |-> << >>, why |-> "none"]

\* graph(n, m, options) up to the head of the loop that adds edges: the
\* records the call may be in
graphStart(n, m, o) ==
  LET g == [NoGraph EXCEPT !.n = n, !.m = m, !.o = o]
      maxEdges == IF o.noSelfLoops THEN (n * (n - 1)) \div 2 ELSE (n * (n + 1)) \div 2
  IN  IF n <= 0 THEN {[g EXCEPT !.pc = "returned", !.result = << >>]}
      ELSE IF o.type = "tree" /\ m # n - 1 THEN {[g EXCEPT !.pc = "threw", !.why = "treeEdges"]}
      ELSE IF o.connected /\ m < n - 1 THEN {[g EXCEPT !.pc = "threw", !.why = "connectedEdges"]}
      ELSE IF ~o.directed /\ m > maxEdges THEN {[g EXCEPT !.pc = "threw", !.why = "maxEdges"]}
      ELSE IF o.type = "tree"
      THEN {[g EXCEPT !.pc = "returned", !.result = r] :
              r \in UNION {UNION {Shuffle(w) : w \in PostProcess(t, o)} : t \in RandomTree(n)}}
      ELSE LET seeded == IF o.connected
                         THEN {AddEdges(<< >>, t, o) : t \in RandomTree(n)}
                         ELSE {<< >>}
           IN  IF o.type = "simple"
               THEN {[g EXCEPT !.pc = "loop", !.edgeSet = es] : es \in seeded}
               ELSE IF o.type = "dag"
               THEN {[g EXCEPT !.pc = "loop", !.edgeSet = es, !.nodes = nodes] :
                       es \in seeded, nodes \in Permutation(n)}
               ELSE {[g EXCEPT !.pc = "loop", !.edgeSet = es, !.nodes = nodes, !.part = part] :
                       es \in seeded, nodes \in Permutation(n), part \in int(1, n - 1)}

\* one pass of the loop `while (edgeSet.size < m)` of the graph's type: the
\* records the call may be in after it
graphDraw(g) ==
  IF g.o.type = "dag"
  THEN {IF ui = vi THEN g
        ELSE [g EXCEPT !.edgeSet =
                addEdge(g.edgeSet, g.nodes[(IF ui < vi THEN ui ELSE vi) + 1],
                        g.nodes[(IF ui < vi THEN vi ELSE ui) + 1], g.o)] :
          ui \in int(0, g.n - 1), vi \in int(0, g.n - 1)}
  ELSE IF g.o.type = "bipartite"
  THEN LET setA == SubSeq(g.nodes, 1, g.part)
           setB == SubSeq(g.nodes, g.part + 1, Len(g.nodes))
       IN  IF setA = << >> \/ setB = << >> THEN {[g EXCEPT !.pc = "threw", !.why = "sampleEmpty"]}
           ELSE {[g EXCEPT !.edgeSet = addEdge(g.edgeSet, setA[a], setB[b], g.o)] :
                   a \in 1..Len(setA), b \in 1..Len(setB)}
  ELSE {[g EXCEPT !.edgeSet = addEdge(g.edgeSet, u, v, g.o)] :
          u \in int(0, g.n - 1), v \in int(0, g.n - 1)}

\* the script calls G.graph(n, m, o)
GraphCall(n, m, o) ==
  /\ script = "graph"
  /\ last.pc = "none"
  /\ last' \in graphStart(n, m, o)
  /\ UNCHANGED <<fsVars, script, checkerVars, makerVars, requests>>

\* the loop is entered once more
GraphDraw ==
  /\ script = "graph"
  /\ last.pc = "loop"
  /\ Len(last.edgeSet) < last.m
  /\ last' \in graphDraw(last)
  /\ UNCHANGED <<fsVars, script, checkerVars, makerVars, requests>>

\* the loop is left: post-processing and return
GraphReturn ==
  /\ script = "graph"
  /\ last.pc = "loop"
  /\ Len(last.edgeSet) >= last.m
  /\ \E w \in PostProcess([j \in 1..Len(last.edgeSet) |-> ParseKey(last.edgeSet[j])], last.o) :
       \E r \in Shuffle(w) : last' = [last EXCEPT !.pc = "returned", !.result = r]
  /\ UNCHANGED <<fsVars, script, checkerVars, makerVars, requests>>

NextGraph ==
  \/ \E n \in 0..MaxNodes, m \in 0..MaxEdges, o \in GraphOptions : GraphCall(n, m, o)
  \/ GraphDraw
  \/ GraphReturn

InitGraph ==
  /\ script = "graph"
  /\ InitFs
  /\ installed = {GPP} /\ srcFiles[MY_CPP].bytes = <<"q">>
  /\ InitChecker
  /\ InitMaker
  /\ requests = {} /\ last = NoGraph
  /\ impl = "lazy" /\ cpus = 1

SpecGraph == InitGraph /\ [][NextGraph]_vars

\* ------------------------------------------------------------------------
\* maker.ts: the exported Maker, a Proxy whose get trap hands out the
\* methods of GenesisMaker instances. The instances of a script are kept
\* in `last`.
\* ------------------------------------------------------------------------
MaxChains == 2

\* new GenesisMaker()
NewMaker == [config |-> MAKER_DEFAULTS, caseQueue |-> << >>]

\* a get trap that keeps to the instance it made first
handlerGet_Singleton(instances) ==
  IF instances = << >> THEN NewMaker ELSE instances[1]

\* handler.get: the instance whose bound method the access returns
handlerGet(instances) == NewMaker

\* the calls of a script: configure(userConfig), case(generator) and
\* cases(count, generator)
ProxyCalls ==
  {[op |-> "configure", config |-> [solution |-> GONE_CPP], count |-> 0],
   [op |-> "configure", config |-> [outputDir |-> SRC_DIR], count |-> 0],
   [op |-> "case", config |-> << >>, count |-> 1],
   [op |-> "cases", config |-> << >>, count |-> 2]}

\* the instance after one of its methods has been called; each returns this
Invoke(instance, call) ==
  CASE call.op = "configure" -> [instance EXCEPT !.config = Merge(@, call.config)]
    [] call.op = "case" -> [instance EXCEPT !.caseQueue = PushCase(@, << >>)]
    [] OTHER -> [instance EXCEPT !.caseQueue = PushCases(@, call.count)]

NoChains == [instances |-> << >>, target |-> 0, call |-> [op |-> "configure", config |-> << >>, count |-> 0]]

\* Maker.<method>(...): a property access on the Proxy, and the call of the
\* bound method it returns
ProxyAccess(call) ==
  /\ script = "proxy"
  /\ Len(last.instances) < MaxChains
  /\ last' = [instances |-> Append(last.instances, Invoke(handlerGet(last.instances), call)),
              target |-> Len(last.instances) + 1,
              call |-> call]
  /\ UNCHANGED <<fsVars, script, checkerVars, makerVars, requests>>

\* a further call of a chain: a method of the instance the chain's calls
\* returned
ChainedCall(i, call) ==
  /\ script = "proxy"
  /\ i \in 1..Len(last.instances)
  /\ Len(last.instances[i].caseQueue) + call.count <= MaxCases
  /\ last' = [instances |-> [last.instances EXCEPT ![i] = Invoke(@, call)],
              target |-> i,
              call |-> call]
  /\ UNCHANGED <<fsVars, script, checkerVars, makerVars, requests>>

NextProxy ==
  \/ \E call \in ProxyCalls : ProxyAccess(call)
  \/ \E i \in 1..MaxChains, call \in ProxyCalls : ChainedCall(i, call)

InitProxy ==
  /\ script = "proxy"
  /\ InitFs
  /\ installed = {GPP} /\ srcFiles[MY_CPP].bytes = <<"q">>
  /\ InitChecker
  /\ InitMaker
  /\ requests = {} /\ last = NoChains
  /\ impl = "lazy" /\ cpus = 1

SpecProxy == InitProxy /\ [][NextProxy]_vars

\* the hosts of a Maker script: std.cpp is there, with or without a
\* compiler, or it is missing and two of the other solution files are there
InitFsMaker ==
  /\ \E present \in {{STD_CPP}, {MAIN_CPP, SOLUTION_CPP}} :
       srcFiles = [f \in present |-> File(<<"p">>)]
  /\ installed \in {{GPP}, {}}
  /\ STD_CPP \notin DOMAIN srcFiles => installed = {GPP}
  /\ cacheFile = [ok |-> FALSE, map |-> << >>]
  /\ disk = {}
  /\ compilerRuns = 0
  /\ cacheWrites = 0

Init ==
  /\ script \in {"check", "make"}
  /\ IF script = "make" THEN InitFsMaker ELSE InitFs
  /\ InitChecker
  /\ InitMaker
  /\ requests = {}
  /\ last = IF script = "make" THEN NoCall ELSE NoLast
  /\ script = "check" => impl = "lazy" /\ cpus = 1

Next == NextChecker \/ NextMaker

Spec == Init /\ [][Next]_vars

\* ------------------------------------------------------------------------
\* Properties of the Checker
\* ------------------------------------------------------------------------
Min(S) == CHOOSE x \in S : \A y \in S : x <= y

RunFailed == pc = "idle" /\ outcome = Ended("returned", "failed")
RunPassed == pc = "idle" /\ outcome = Ended("returned", "passed")
LoopEntered == run.targetPath # << >>
Invoked(k) == calls.gen = k /\ calls.std = k /\ calls.target = k

\* C1: when the target's outcome first departs from std's at iteration k, the
\* run has halted, the reported test number is k, and the generator, std and
\* the target were each invoked exactly k times (never for an iteration > k).
C1_HaltsAtFirstDeparture ==
  calls.departed # {} =>
    /\ RunFailed
    /\ report.test = Min(calls.departed)
    /\ report.kind \in {"WA", "RE", "TLE"}
    /\ Invoked(Min(calls.departed))

C1_Witness == calls.departed = {1} /\ run.count = 2 /\ RunFailed

\* C2: while no iteration of the loop has departed and std has not crashed,
\* nothing is reported and no artifact write is attempted; when such a run
\* ends it has executed exactly `count` iterations and reports success.
C2_AllPassSucceeds ==
  (LoopEntered /\ calls.departed = {} /\ calls.stdCrashed = {}) =>
    /\ report = NoReport
    /\ calls.writes = 0
    /\ calls.gen <= run.count
    /\ pc = "idle" => (RunPassed /\ Invoked(run.count))

C2_Witness == RunPassed /\ run.count = 2 /\ Invoked(2) /\ calls.departed = {}

\* C3: when std exits abnormally in iteration i, the run has halted with
\* RE_STD reported for test i, the target was not run in iteration i and no
\* later iteration has started.
C3_StdCrashHalts ==
  calls.stdCrashed # {} =>
    /\ RunFailed
    /\ report.kind = "RE_STD"
    /\ report.test = Min(calls.stdCrashed)
    /\ iter.tgt = NotRun
    /\ calls.target = Min(calls.stdCrashed) - 1
    /\ calls.gen = Min(calls.stdCrashed)
    /\ calls.std = Min(calls.stdCrashed)

C3_Witness == calls.stdCrashed = {2} /\ RunFailed

\* C4: a halted run carries one failure kind: RE_STD exactly when std failed,
\* TLE exactly when the target was killed by the timeout, RE exactly when the
\* target failed otherwise, WA exactly when the target exited normally and
\* the comparison was false; only a normally exited target is compared.
C4_FailureKinds ==
  RunFailed =>
    /\ report.kind \in {"RE_STD", "TLE", "RE", "WA"}
    /\ report.kind = "RE_STD" <=> iter.std.kind # "ok"
    /\ report.kind = "TLE" <=> iter.tgt.kind = "timeout"
    /\ report.kind = "RE" <=> iter.tgt.kind = "crash"
    /\ report.kind = "WA" <=>
         (iter.tgt.kind = "ok"
            /\ ~compareOutputs(iter.std.stdout, iter.tgt.stdout, iter.mode))
    /\ iter.tgt.kind # "ok" => iter.mode = "none"

C4_Witness == RunFailed /\ report.kind = "TLE" /\ iter.tgt.kind = "timeout"

\* the failure kind as the children's outcomes determine it
KindOf(it) ==
  IF it.std.kind # "ok" THEN "RE_STD"
  ELSE IF it.tgt.kind = "timeout" THEN "TLE"
  ELSE IF it.tgt.kind = "crash" THEN "RE"
  ELSE "WA"

\* C5: only the Checker's target run is started with a time limit. A std run
\* and a Maker case run are started without one, the timeout can never end
\* them (they are waited for until they exit by themselves), and no timeout
\* outcome is ever recorded for them.
C5_TimeoutOnlyOnTarget ==
  /\ child.role = "std" =>
       child.limit = NoLimit /\ Killed \notin ChildOutcomes(child)
  /\ iter.std.kind # "timeout"
  /\ child.limit > NoLimit => child.role = "target"
  /\ \A j \in DOMAIN tasks :
       /\ tasks[j].limit = NoLimit
       /\ tasks[j].exit # "timeout"
       /\ tasks[j].pc = "running" =>
            Killed \notin ChildOutcomes([role |-> "case", limit |-> tasks[j].limit])

\* std of the second iteration is running after timeout(1000) was called
C5_Witness ==
  pc = "stdRunning" /\ child.role = "std" /\ timeoutMs = 1000 /\ run.i = 2

Lacking(userConfig) ==
  Get(userConfig, "std", << >>) = << >> \/ Get(userConfig, "target", << >>) = << >>

\* C7: in every state, configure() with a configuration lacking std or target
\* throws and would leave the stored configuration as it is; and no step that
\* ends with a thrown configure() changes the stored configuration.
C7_ConfigureRejects ==
  /\ [](\A uc \in UserConfigs :
          Lacking(uc) => /\ ConfigureResult(config, uc).threw
                         /\ ConfigureResult(config, uc).config = config)
  /\ [][configured' = "threw" => config' = config]_vars

C7_Witness ==
  /\ configured = "threw"
  /\ config = [std |-> STD_CPP, target |-> MY_CPP, compareMode |-> "normalized"]

\* C8 as stated: no exception propagates out of configure(), run() or
\* generate().
C8_NoException ==
  /\ configured # "threw"
  /\ outcome.result # "rejected"
  /\ moutcome.result # "rejected"

\* C9 as stated: the timeout applied to the target and the mode used by the
\* comparison are those in force when run() started.
C9_ConfigFixedDuringRun ==
  /\ child.role = "target" => child.limit = run.timeout0
  /\ iter.mode \in {"none", run.mode0}

\* ------------------------------------------------------------------------
\* Properties of the compilation cache
\* ------------------------------------------------------------------------
CacheHit(paths) ==
  /\ last.res = "path"
  /\ last.path \in paths
  /\ ~last.ran
  /\ last.cacheSame

\* C10 as stated: a request that repeats an earlier successful one (same
\* source path and bytes, same compiler command, same flags) while that
\* request's artifact exists, the cache file not having been lost, returns
\* its path, runs no compiler and leaves the cache file as it is.
C10_Original == last.earlier # {} => CacheHit(last.earlier)

\* C10 amended: such a request returns the earlier path without compiling
\* and without touching the cache file when, besides the artifact existing
\* and the cache file not having been lost, no compilation for the same
\* source path and compiler (other bytes or other flags) has succeeded in
\* between.
C10_RepeatedRequestHits == last.recorded # {} => CacheHit(last.recorded)

\* the third request repeats an earlier one and is served from the cache
C10_Witness == last.n = 3 /\ last.recorded # {} /\ last.res = "path" /\ ~last.ran

\* ------------------------------------------------------------------------
\* Properties of prepareForExecution
\* ------------------------------------------------------------------------
\* the latest request got as far as the cache lookup
Looked == last.hash # << >>

\* the compiler of the latest request accepts what it is given
CompilerSucceeds == last.compiler \in installed /\ Compiles(last.bytes)

\* the cache entry the latest request recorded or should have recorded
LastEntry == [hash |-> last.hash, executablePath |-> last.path]

\* the cache, as the latest request found it, holds a usable entry
EntryOk ==
  LET c == last.cacheBefore
  IN  /\ c.ok
      /\ last.key \in DOMAIN c.map
      /\ c.map[last.key].hash = last.hash
      /\ c.map[last.key].executablePath \in last.diskBefore

\* the first command of cands that is installed; << >> when none is
FirstInstalled(cands) ==
  LET ok == {j \in 1..Len(cands) : cands[j] \in installed}
  IN  IF ok = {} THEN << >> ELSE cands[CHOOSE j \in ok : \A k \in ok : j <= k]

\* C11: a compile request on a source for which an earlier compilation
\* succeeded with other source bytes, another compiler command or another
\* ordered list of flags has a fingerprint different from the earlier one,
\* invokes the compiler, and does not return the earlier artifact path.
C11_DifferentRequestMisses ==
  Looked =>
    \A h \in requests :
      /\ h.n < last.n
      /\ h.source = last.source
      /\ <<h.bytes, h.compiler, h.flags>> # <<last.bytes, last.compiler, last.flags>>
      => /\ last.hash # h.hash
         /\ last.ran
         /\ last.path # h.path

\* C12: a request is served from the cache only if the cache file held an
\* entry under its key with the fingerprint just computed and an artifact
\* path that existed; without such an entry the compiler is invoked, and on
\* success the entry under the key is the new one.
C12_HitOnlyOnValidEntry ==
  Looked =>
    /\ (last.res = "path" /\ ~last.ran) =>
         (EntryOk /\ last.path = last.cacheBefore.map[last.key].executablePath)
    /\ ~EntryOk =>
         /\ last.ran
         /\ last.res = "path" =>
              /\ last.cacheAfter.ok
              /\ last.key \in DOMAIN last.cacheAfter.map
              /\ last.cacheAfter.map[last.key] = LastEntry

\* an entry with the right fingerprint whose artifact was deleted: the
\* compiler ran again
C12_Witness ==
  /\ Looked /\ last.cacheBefore.ok
  /\ last.key \in DOMAIN last.cacheBefore.map
  /\ last.cacheBefore.map[last.key].hash = last.hash
  /\ last.cacheBefore.map[last.key].executablePath \notin last.diskBefore
  /\ last.ran /\ last.res = "path"

\* C13: when the compiler fails, the request fails and the cache file is
\* what it was before the request.
C13_FailedCompileKeepsCache ==
  (last.ran /\ ~CompilerSucceeds) =>
    /\ last.res = "null"
    /\ ~last.wrote
    /\ last.cacheAfter = last.cacheBefore

\* the compiler failed while the cache file held entries
C13_Witness ==
  /\ last.ran /\ ~CompilerSucceeds
  /\ last.cacheBefore.ok /\ DOMAIN last.cacheBefore.map # {}

\* C14: with the cache file missing or unparsable, a compile request whose
\* source exists and whose compiler is resolved looks up nothing, runs the
\* compiler and does not throw; if the compiler succeeds the request
\* succeeds and the cache file is a readable map holding the new entry.
C14_BrokenCacheIsEmpty ==
  (/\ ~last.cacheBefore.ok /\ last.type = "compiled"
   /\ last.compiler # << >> /\ last.source \in DOMAIN srcFiles) =>
    /\ last.ran
    /\ last.res # "throw"
    /\ CompilerSucceeds =>
         /\ last.res = "path"
         /\ last.cacheAfter.ok
         /\ last.key \in DOMAIN last.cacheAfter.map
         /\ last.cacheAfter.map[last.key] = LastEntry

\* the cache file was lost after a first compilation, and the second
\* request compiled and recorded its entry
C14_Witness ==
  /\ last.n = 2 /\ ~last.cacheBefore.ok /\ last.res = "path" /\ last.ran
  /\ \E h \in requests : h.lost
  /\ last.cacheAfter.ok

\* C15: the cache map holds, under each key, the fingerprint and path of
\* the latest successful compilation for that key, and every latest
\* successful compilation is in the map (unless the file was lost since).
C15_EntryIsLatestCompile ==
  /\ \A h \in requests :
       (~h.lost /\ ~h.replaced) =>
         /\ cacheFile.ok
         /\ h.key \in DOMAIN cacheFile.map
         /\ cacheFile.map[h.key] = [hash |-> h.hash, executablePath |-> h.path]
  /\ cacheFile.ok =>
       \A k \in DOMAIN cacheFile.map :
         \E h \in requests :
           /\ h.key = k /\ ~h.replaced
           /\ cacheFile.map[k] = [hash |-> h.hash, executablePath |-> h.path]

\* two compilations under one key: the map holds the later one; and two
\* compilations under two keys: the map holds both
C15_Witness ==
  /\ cacheFile.ok
  /\ \E h \in requests :
       /\ ~h.lost
       /\ \/ h.replaced /\ cacheFile.map[h.key].hash # h.hash
          \/ ~h.replaced /\ h.n = 1 /\ DOMAIN cacheFile.map # {h.key}

\* C16: for a source of a compiled language, the compiler is the configured
\* override, no candidate being probed; without an override it is the first
\* installed command of the language's candidates, every command before it
\* having been probed, and the request ends for want of a toolchain exactly
\* when no candidate is installed.
C16_CompilerResolution ==
  last.type = "compiled" =>
    IF last.override # << >>
    THEN /\ last.compiler = last.override
         /\ last.probed = << >>
         /\ last.why # "noCompiler"
    ELSE LET cands == COMPILER_CANDIDATES[last.lang]
         IN  /\ last.compiler = FirstInstalled(cands)
             /\ last.why = "noCompiler" <=> FirstInstalled(cands) = << >>
             /\ \A j \in 1..Len(last.probed) : last.probed[j] = cands[j]
             /\ \A j \in 1..Len(cands) :
                  cands[j] = last.compiler => Len(last.probed) = j

\* the first candidate is not installed and the second one is used
C16_Witness ==
  /\ last.type = "compiled" /\ last.override = << >>
  /\ last.probed = <<GPP, CLANGPP>> /\ last.compiler = CLANGPP /\ last.ran

\* C17: preparing a source of an interpreted language runs no compiler and
\* neither reads nor writes the cache file; its run command is the first
\* installed interpreter of the language's candidates followed by the
\* source path.
C17_InterpretedSkipsCache ==
  last.type = "interpreted" =>
    /\ ~last.ran /\ ~last.read /\ ~last.wrote
    /\ last.cacheAfter = last.cacheBefore
    /\ IF FirstInstalled(RUNTIME_CANDIDATES[last.lang]) = << >>
       THEN last.res = "null"
       ELSE /\ last.res = "path"
            /\ last.runArgs = <<FirstInstalled(RUNTIME_CANDIDATES[last.lang]), last.source>>

\* a Python source is prepared on a host with both interpreters while the
\* cache file holds an entry
C17_Witness ==
  /\ last.lang = "python" /\ last.res = "path"
  /\ PYTHON3 \in installed /\ PYTHON \in installed
  /\ last.cacheBefore.ok

\* C18: for a Java source the path returned is the one recorded in the
\* cache, and the run command is java -cp <that path> <base name of the
\* source>.
C18_JavaClasspath ==
  (last.lang = "java" /\ last.res = "path") =>
    /\ last.cacheAfter.map[last.key].executablePath = last.path
    /\ last.runArgs = <<JAVA, <<"-", "c", "p">>, last.path, ParseName(last.source)>>

\* ------------------------------------------------------------------------
\* Properties of Maker.generate
\* ------------------------------------------------------------------------
\* generate() has gone past the cleanup of the output directory
Cleaned == removed # {}

\* a is the project root or lies under it
InsideRoot(a) == a = CWD \/ StartsWith(a, CWD \o <<"/">>)

\* C19: the output directory is removed only if its basename is not a
\* forbidden name, its resolved path is not the project root, and its
\* resolved path lies inside the project root.
C19_RemovesOnlyCheckedDir ==
  Cleaned =>
    /\ removed = {Resolve(mconfig.outputDir)}
    /\ Basename(mconfig.outputDir) \notin FORBIDDEN_NAMES
    /\ Resolve(mconfig.outputDir) # CWD
    /\ InsideRoot(Resolve(mconfig.outputDir))

\* the solution of the configuration cannot be compiled: no compiler is
\* resolved, or the compiler rejects the source or cannot be run
CompileFails ==
  LET sourceFile == findSolutionFile(mconfig)
      cmd == resolveCompiler(Get(mconfig, "compiler", << >>))
  IN  \/ cmd \notin installed
      \/ ~ReadSource(sourceFile).exists
      \/ ~Compiles(ReadSource(sourceFile).bytes)

\* a fatal step of generate() fails under the current configuration
FatalStep ==
  \/ SafetyCheck(mconfig.outputDir) # "remove"
  \/ findSolutionFile(mconfig) = << >>
  \/ CompileFails

\* C20: when the safety check of the output directory, the resolution of
\* the solution file, the resolution of the compiler or the compilation
\* fails, no case generator is called, no child is started and no .in or
\* .out file is written; after a failed safety check nothing has been
\* removed, created, compiled or written at all.
C20_FatalStepStops ==
  script = "make" =>
    /\ \/ /\ tasks = << >> /\ results = << >> /\ mexe = << >>
          /\ outFiles \in {NoFiles, (<<9, "in">> :> OLD_TEXT)}
          /\ moutcome.why \notin {"complete", "withErrors", "noCases"}
       \/ ~FatalStep
    /\ \/ /\ removed = {} /\ made = {} /\ disk = {}
          /\ compilerRuns = 0 /\ cacheWrites = 0 /\ ~cacheFile.ok
          /\ outFiles = (<<9, "in">> :> OLD_TEXT)
       \/ SafetyCheck(mconfig.outputDir) = "remove"

\* generate() stopped at the compilation with cases registered, after the
\* output directory had been cleaned
C20_Witness ==
  /\ moutcome.why = "compileFailed" /\ Cleaned
  /\ Len(caseQueue) > 0 /\ tasks = << >> /\ mpc = "idle"

\* ------------------------------------------------------------------------
\* Properties of compareOutputs and formatData
\* ------------------------------------------------------------------------
\* the lines of a text: CRLF to LF, split on LF, empty lines dropped, the
\* remaining lines right-trimmed
TrimmedLines(text) ==
  LET kept == SelectSeq(Split(ReplaceCRLF(text), LF), LAMBDA line : Len(line) > 0)
  IN  [j \in 1..Len(kept) |-> TrimEnd(kept[j])]

\* the non-blank lines of a text, right-trimmed: what is left of it when
\* line-ending style, blank lines and trailing whitespace are ignored
NonBlankLines(text) ==
  LET lines == Split(ReplaceCRLF(text), LF)
  IN  SelectSeq([j \in 1..Len(lines) |-> TrimEnd(lines[j])], LAMBDA line : Len(line) > 0)

C28_IgnoresBlankLinesAndTrailingSpace ==
  last.op = "compare" =>
    (last.normalized <=> NonBlankLines(last.a) = NonBlankLines(last.b))

\* C29: the exact comparison is identity of the texts, a text compares equal
\* to itself in both modes, and texts that compare equal exactly compare
\* equal when normalized.
C29_ExactIsIdentity ==
  last.op = "compare" =>
    /\ last.exact <=> last.a = last.b
    /\ last.a = last.b => (last.exact /\ last.normalized)
    /\ last.exact => last.normalized

\* a text with trailing whitespace compared with itself
C29_Witness ==
  /\ last.op = "compare" /\ last.a = last.b /\ last.a = <<"x", SP>>
  /\ last.exact /\ last.normalized

\* the array A of an application format([A])
FormattedArray == last.data.a[1].a

\* C30 as stated: format([A]) is A.join(' ') for every array A of scalars.
C30_Original ==
  last.op = "format" => last.text = JsJoin(FormattedArray, <<SP>>)

\* C30 amended: format([A]) is A.join(' ') when A is empty or its first
\* element is a number, and A.join('\n') when its first element is a string.
C30_ScalarArrayIsOneLine ==
  last.op = "format" =>
    IF FormattedArray = << >> \/ FormattedArray[1].k = "num"
    THEN last.text = JsJoin(FormattedArray, <<SP>>)
    ELSE last.text = JsJoin(FormattedArray, <<LF>>)

\* an array of a string and a number is formatted as two lines, and an
\* array of a number and a string as one
C30_Witness ==
  /\ last.op = "format"
  /\ \/ FormattedArray = <<Str(<<"a">>), Num(12)>> /\ last.text = <<"a", LF, "1", "2">>
     \/ FormattedArray = <<Num(12), Str(<<"a">>)>> /\ last.text = <<"1", "2", SP, "a">>

\* ------------------------------------------------------------------------
\* Properties of the Maker's case tasks
\* ------------------------------------------------------------------------
\* the files of the case at 1-based queue position j
FilesOf(j) == {<<mconfig.startFrom + (j - 1), ext>> : ext \in {"in", "out"}}

\* the case at queue position j has been started and has not finished
Active(j) == j \in DOMAIN tasks /\ tasks[j].pc \in {"writeIn", "running", "writeOut"}

\* generate() has reported on the cases
Reported == moutcome.why \in {"complete", "withErrors", "noCases"}

\* C21: the case at 0-based queue position i writes <startFrom+i>.in and
\* <startFrom+i>.out and nothing else, whatever became of the other cases;
\* a successful case has written both; no two cases write the same file.
C21_CaseNumbering ==
  /\ \A j \in DOMAIN tasks :
       /\ tasks[j].wrote \subseteq FilesOf(j)
       /\ tasks[j].wrote \subseteq DOMAIN outFiles
       /\ tasks[j].pc = "ok" => tasks[j].wrote = FilesOf(j)
  /\ \A j, k \in DOMAIN tasks : j # k => tasks[j].wrote \cap tasks[k].wrote = {}

\* the first case failed before writing and the second one wrote its own
\* two files: the numbers start at 3 and 3.in is missing
C21_Witness ==
  /\ mconfig.startFrom = 3 /\ Len(tasks) = 2
  /\ tasks[1].pc = "failed" /\ tasks[1].wrote = {}
  /\ tasks[2].pc = "ok"
  /\ DOMAIN outFiles = {<<4, "in">>, <<4, "out">>}

\* C22: the .in file of a case holds the formatted value of its generator,
\* the child got that text on stdin, and the .out file holds the stdout
\* captured from the child.
C22_FileContents ==
  \A j \in DOMAIN tasks :
    /\ <<mconfig.startFrom + (j - 1), "in">> \in tasks[j].wrote =>
         outFiles[<<mconfig.startFrom + (j - 1), "in">>] = formatData(tasks[j].raw)
    /\ (tasks[j].pc = "running" \/ tasks[j].exit # "none") =>
         tasks[j].stdin = formatData(tasks[j].raw)
    /\ <<mconfig.startFrom + (j - 1), "out">> \in tasks[j].wrote =>
         /\ tasks[j].exit = "ok"
         /\ outFiles[<<mconfig.startFrom + (j - 1), "out">>] = tasks[j].stdout

\* two cases returning [[1,2]] and [[]] give 1.in = "1 2" and 2.in = ""
C22_Witness ==
  /\ mconfig.startFrom = 1 /\ Len(tasks) = 2
  /\ tasks[1].raw = Arr(<<Arr(<<Num(1), Num(2)>>)>>)
  /\ tasks[2].raw = Arr(<<Arr(<< >>)>>)
  /\ tasks[1].pc = "ok" /\ tasks[2].pc = "ok"
  /\ outFiles[<<1, "in">>] = <<"1", SP, "2">>
  /\ outFiles[<<2, "in">>] = << >>
  /\ outFiles[<<1, "out">>] = <<"3">>

\* C23: when generate() reports, every queued case has finished and has
\* exactly one result, in queue order, that tells whether that case itself
\* succeeded; the summary is "complete" exactly when every case succeeded.
C23_FailuresAreIsolated ==
  Reported =>
    /\ Len(results) = Len(caseQueue)
    /\ \A j \in 1..Len(caseQueue) :
         /\ Finished(tasks[j])
         /\ results[j].n = mconfig.startFrom + (j - 1)
         /\ results[j].success <=> tasks[j].pc = "ok"
    /\ Cardinality({j \in 1..Len(results) : results[j].success})
         + Cardinality({j \in 1..Len(results) : ~results[j].success})
       = Len(caseQueue)
    /\ moutcome.why = "withErrors" <=> \E j \in 1..Len(results) : ~results[j].success

\* the first case failed and the second one, in a later batch, succeeded
C23_Witness ==
  /\ Reported /\ cpus = 1 /\ Len(results) = 2
  /\ ~results[1].success /\ results[2].success
  /\ tasks[1].exit = "crash"

\* C24: the cases started and not finished are never more than the CPUs,
\* and no case of a batch is started before every case of the batches
\* before it has finished.
C24_BoundedConcurrency ==
  /\ Cardinality({j \in DOMAIN tasks : Active(j)}) <= cpus
  /\ \A j, k \in DOMAIN tasks :
       ((j - 1) \div cpus < (k - 1) \div cpus /\ tasks[k].pc # "queued") =>
         Finished(tasks[j])

\* ------------------------------------------------------------------------
\* Properties of the Maker's configuration and queue
\* ------------------------------------------------------------------------
\* the first file of a list that exists; << >> when none does
FirstPresent(files) ==
  LET ok == {j \in 1..Len(files) : files[j] \in DOMAIN srcFiles}
  IN  IF ok = {} THEN << >> ELSE files[CHOOSE j \in ok : \A k \in ok : j <= k]

\* C25: when the script has configured a solution path, generate() looks
\* for that path only and stops for want of a solution when it does not
\* exist; when it has configured none, the first existing file of std.cpp,
\* main.cpp, solution.cpp is chosen.
C25_ConfiguredSolutionOnly ==
  (script = "make" /\ last.op = "findSolutionFile") =>
    IF "solution" \in requests
    THEN /\ last.chosen = FirstPresent(<<mconfig.solution>>)
         /\ mconfig.solution \notin DOMAIN srcFiles => moutcome.why = "noSolution"
    ELSE last.chosen = FirstPresent(<<STD_CPP, MAIN_CPP, SOLUTION_CPP>>)

\* n consecutive anonymous case(g) calls on a queue
RECURSIVE CaseTimes(_, _)
CaseTimes(queue, n) ==
  IF n <= 0 THEN queue ELSE CaseTimes(PushCase(queue, << >>), n - 1)

\* C26: after cases(N, g) the queue is what N consecutive anonymous
\* case(g) calls make of the queue before the call: the entries before are
\* untouched, N unlabeled entries follow them, none when N <= 0.
C26_CasesIsRepeatedCase ==
  (script = "make" /\ last.op = "cases") =>
    /\ caseQueue = CaseTimes(last.before, last.n)
    /\ SubSeq(caseQueue, 1, Len(last.before)) = last.before
    /\ Len(caseQueue) = Len(last.before) + (IF last.n > 0 THEN last.n ELSE 0)
    /\ \A j \in Len(last.before) + 1..Len(caseQueue) : caseQueue[j].label = << >>

\* cases(1, g) after a labelled case, cases(2, g) on an empty queue, or
\* cases(-1, g) on a queue that holds an entry
C26_Witness ==
  /\ script = "make" /\ last.op = "cases"
  /\ \/ last.n = 1 /\ Len(last.before) = 1 /\ last.before[1].label # << >>
     \/ last.n = 2 /\ Len(caseQueue) = 2
     \/ last.n = -1 /\ Len(caseQueue) = 1

\* ------------------------------------------------------------------------
\* Properties of formatData on matrices, string lines and empty inputs
\* ------------------------------------------------------------------------
\* a scalar as text
ScalarText(v) == IF v.k = "num" THEN NatToStr(v.n) ELSE v.s

\* the cells of a row joined by single spaces
RowText(row) == Join([j \in 1..Len(row.a) |-> ScalarText(row.a[j])], <<SP>>)

\* the lines of the elements beside the one an application is about: a
\* number is a line, an array of numbers is a line, an empty array is an
\* empty line and the strings of an array of strings are a line each
SideLines(side) ==
  IF side = << >> THEN << >>
  ELSE IF side[1].k = "num" THEN <<NatToStr(side[1].n)>>
  ELSE IF side[1].a = << >> THEN << << >> >>
  ELSE IF side[1].a[1].k = "num" THEN <<RowText(side[1])>>
  ELSE [j \in 1..Len(side[1].a) |-> side[1].a[j].s]

\* the element of the application is a matrix
OfMatrix == last.op = "formatIn" /\ last.data.a # << >> /\ last.data.a[1].k = "arr"

\* the element of the application is an array that begins with a string
OfStringLines == last.op = "formatIn" /\ last.data.a # << >> /\ last.data.a[1].k = "str"

\* C31: a matrix M as a top-level element is formatted as M.length lines,
\* the i-th being the cells of the i-th row joined by single spaces, and
\* these lines stand between the lines of the elements before and after.
C31_MatrixRows ==
  OfMatrix =>
    last.text = Join(SideLines(last.pre)
                       \o [i \in 1..Len(last.data.a) |-> RowText(last.data.a[i])]
                       \o SideLines(last.post), <<LF>>)

\* a matrix of two rows alone, and one between a number and an array of
\* strings
C31_Witness ==
  /\ OfMatrix
  /\ last.data.a = <<Arr(<<Num(7), Num(12)>>), Arr(<<Num(12)>>)>>
  /\ \/ last.pre = << >> /\ last.post = << >>
        /\ last.text = <<"7", SP, "1", "2", LF, "1", "2">>
     \/ last.pre = <<Num(7)>> /\ last.post = <<Arr(<<Str(<<"a">>), Str(<<"b">>)>>)>>
        /\ last.text = <<"7", LF, "7", SP, "1", "2", LF, "1", "2", LF, "a", LF, "b">>

\* C32: an element that is an array whose first entry is a string gives one
\* line per member, in order, each member as it is, whatever the members
\* after the first are.
C32_StringLinesByFirstEntry ==
  OfStringLines =>
    last.text = Join(SideLines(last.pre)
                       \o [i \in 1..Len(last.data.a) |-> ScalarText(last.data.a[i])]
                       \o SideLines(last.post), <<LF>>)

\* two strings give two lines, and so do a string and a number
C32_Witness ==
  /\ OfStringLines /\ last.pre = << >> /\ last.post = << >>
  /\ \/ last.data.a = <<Str(<<"a">>), Str(<<"a">>)>> /\ last.text = <<"a", LF, "a">>
     \/ last.data.a = <<Str(<<"a">>), Num(7)>> /\ last.text = <<"a", LF, "7">>

\* C33: null, undefined, [] and [[]] are formatted as the empty string,
\* [[], []] as one newline, and an empty array between two non-empty
\* elements as one empty line between their lines.
C33_EmptyInputs ==
  /\ last.op = "formatEmpty" => last.text = << >>
  /\ (last.op = "formatIn" /\ last.data = Arr(<< >>)) =>
       /\ (last.pre = << >> /\ last.post = << >>) => last.text = << >>
       /\ (last.pre = <<Arr(<< >>)>> /\ last.post = << >>) => last.text = <<LF>>
       /\ (formatData(Arr(last.pre)) # << >> /\ formatData(Arr(last.post)) # << >>) =>
            last.text = formatData(Arr(last.pre)) \o <<LF, LF>> \o formatData(Arr(last.post))

\* format(undefined), format([[], []]) and format([[7, 12], [], 7])
C33_Witness ==
  \/ last.op = "formatEmpty" /\ last.data = Undefined
  \/ /\ last.op = "formatIn" /\ last.data = Arr(<< >>)
     /\ \/ last.pre = <<Arr(<< >>)>> /\ last.post = << >> /\ last.text = <<LF>>
        \/ last.pre = <<Arr(<<Num(7), Num(12)>>)>> /\ last.post = <<Num(7)>>
           /\ last.text = <<"7", SP, "1", "2", LF, LF, "7">>

\* ------------------------------------------------------------------------
\* Properties of the order of the steps of Checker.run
\* ------------------------------------------------------------------------
\* a child of the run is alive
ChildAlive == pc \in {"stdRunning", "targetRunning"}

\* C34: std is compiled before target and both before the first iteration;
\* in the iteration under way the generator has been called once, std is
\* started before the target and has ended when the target runs, the target
\* gets the input std got, one child at most is alive, and every earlier
\* iteration has passed.
C34_StrictlySequential ==
  script = "check" =>
    /\ pc = "compileStd" => run.stdPath = << >> /\ run.targetPath = << >> /\ calls.gen = 0
    /\ pc = "compileTarget" => run.stdPath # << >> /\ run.targetPath = << >> /\ calls.gen = 0
    /\ calls.gen > 0 => run.stdPath # << >> /\ run.targetPath # << >>
    /\ ChildAlive <=> child.role # "none"
    /\ pc = "stdRunning" =>
         /\ child.role = "std" /\ iter.std = NotRun /\ iter.tgt = NotRun
         /\ calls.gen = run.i /\ calls.std = run.i /\ calls.target = run.i - 1
    /\ pc = "targetRunning" =>
         /\ child.role = "target" /\ iter.std.kind = "ok" /\ iter.tgt = NotRun
         /\ calls.gen = run.i /\ calls.std = run.i /\ calls.target = run.i
    /\ ChildAlive =>
         /\ child.input = formatData(iter.raw)
         /\ iter.n = run.i
         /\ \A k \in 1..(run.i - 1) : k \notin calls.departed \cup calls.stdCrashed

\* the target of the second iteration runs
C34_Witness ==
  /\ pc = "targetRunning" /\ run.i = 2 /\ child.role = "target"
  /\ calls.gen = 2 /\ calls.std = 2 /\ calls.target = 2
  /\ child.input = <<"3", SP, "4">>

\* ------------------------------------------------------------------------
\* Properties of G.graph
\* ------------------------------------------------------------------------
\* the vertices of a returned graph: 0..n-1, or 1..n when oneBased
Vertices == IF last.o.oneBased THEN 1..last.n ELSE 0..(last.n - 1)

\* the edges returned, without their weights
ReturnedEdges == {<<last.result[j][1], last.result[j][2]>> : j \in 1..Len(last.result)}

\* an order of the vertices exists that every edge follows
Acyclic(edges) ==
  \E rank \in [Vertices -> 1..last.n] :
    /\ \A u \in Vertices, v \in Vertices : rank[u] = rank[v] => u = v
    /\ \A e \in edges : rank[e[1]] < rank[e[2]]

\* C35: a graph returned for { type: 'dag', directed: true } has no directed
\* cycle, whatever the other options are.
C35_DagIsAcyclic ==
  (script = "graph" /\ last.pc = "returned" /\ last.o.type = "dag" /\ last.o.directed) =>
    Acyclic(ReturnedEdges)

\* a pass of the loop can add an edge
CanAddEdge == \E g \in graphDraw(last) : g.pc = "loop" /\ Len(g.edgeSet) > Len(last.edgeSet)

\* C36: a call for n >= 1 vertices ends: an error is a validation error, the
\* loop that adds edges can always add one while fewer than m are there, and
\* what is returned is m distinct edges, without self-loop when noSelfLoops.
C36_GraphTerminates ==
  (script = "graph" /\ last.n >= 1) =>
    /\ last.pc = "threw" => last.why \in {"treeEdges", "connectedEdges", "maxEdges"}
    /\ (last.pc = "loop" /\ Len(last.edgeSet) < last.m) => CanAddEdge
    /\ last.pc = "returned" =>
         /\ Len(last.result) = last.m
         /\ Cardinality(ReturnedEdges) = last.m
         /\ last.o.noSelfLoops => \A e \in ReturnedEdges : e[1] # e[2]

\* ------------------------------------------------------------------------
\* Properties of the cache file under writes and of the artifact cleanup
\* ------------------------------------------------------------------------
\* the keys of the cache file whose entry a step adds, changes or drops
TouchedKeys ==
  {k \in (DOMAIN cacheFile.map) \cup (DOMAIN cacheFile'.map) :
     \/ k \notin DOMAIN cacheFile.map
     \/ k \notin DOMAIN cacheFile'.map
     \/ cacheFile'.map[k] # cacheFile.map[k]}

\* C37: a compile that writes its entry into a readable cache file leaves
\* the entry of every other key as it was: the one key touched is the key
\* of the artifact the request returns, and no key is dropped.
C37_WriteKeepsOtherEntries ==
  [][(cacheFile.ok /\ cacheWrites' > cacheWrites) =>
       /\ cacheFile'.ok
       /\ DOMAIN cacheFile.map \subseteq DOMAIN cacheFile'.map
       /\ Cardinality(TouchedKeys) <= 1
       /\ \A k \in TouchedKeys : cacheFile'.map[k].executablePath = last'.path]_vars

\* three writes into a cache file that was never lost have left the entries
\* of two keys
C37_Witness ==
  /\ script = "cache" /\ cacheFile.ok /\ cacheWrites = 3
  /\ Cardinality(DOMAIN cacheFile.map) = 2
  /\ \A h \in requests : ~h.lost

\* the artifacts the entries of the cache file reference
Referenced == {cacheFile.map[k].executablePath : k \in DOMAIN cacheFile.map}

\* C38: the cleanup of stale artifacts unlinks only files that no entry of
\* the cache file references and leaves cache.json as it is, so every entry
\* that was a hit before is one after; without a readable cache file it
\* unlinks nothing.
C38_CleanupKeepsReferenced ==
  [][(script = "cache" /\ last'.n = last.n /\ last'.cleaned # last.cleaned) =>
       /\ cacheFile' = cacheFile
       /\ disk \ disk' = last'.cleaned
       /\ last'.cleaned \cap Referenced = {}
       /\ ~cacheFile.ok => last'.cleaned = {}
       /\ \A k \in DOMAIN cacheFile.map :
            findCachedExecutable(k, cacheFile.map[k].hash) # << >> =>
              cacheFile.map[k].executablePath \in disk']_vars

\* a cleanup has unlinked a stale artifact and kept the one the cache file
\* references
C38_Witness ==
  /\ script = "cache" /\ cacheFile.ok
  /\ last.cleaned # {}
  /\ Referenced \cap disk # {}

\* ------------------------------------------------------------------------
\* Properties of the exported Maker
\* ------------------------------------------------------------------------
\* what a call makes of a configuration and of a queue
ConfigAfter(cfg, call) ==
  [k \in (DOMAIN cfg) \cup (DOMAIN call.config) |->
     IF k \in DOMAIN call.config THEN call.config[k] ELSE cfg[k]]

QueueAfter(queue, call) == queue \o [j \in 1..call.count |-> [label |-> << >>]]

\* C39: an access to Maker starts its chain on an instance that holds the
\* defaults and an empty queue, whatever the chains before it have
\* configured and queued, and a call of a chain changes the instance of that
\* chain alone.
C39_FreshInstancePerAccess ==
  [][script = "proxy" =>
       LET before == last.instances
           after == last'.instances
           i == last'.target
       IN  /\ \A j \in 1..Len(before) : j # i => after[j] = before[j]
           /\ after[i].config =
                ConfigAfter(IF i > Len(before) THEN MAKER_DEFAULTS ELSE before[i].config,
                            last'.call)
           /\ after[i].caseQueue =
                QueueAfter(IF i > Len(before) THEN << >> ELSE before[i].caseQueue,
                           last'.call)]_vars

\* a second chain begun with case(g) after a first chain has configured a
\* solution and queued two cases
C39_Witness ==
  /\ script = "proxy" /\ Len(last.instances) = 2
  /\ last.instances[1].config.solution = GONE_CPP
  /\ Len(last.instances[1].caseQueue) = 2
  /\ last.instances[2] = [config |-> MAKER_DEFAULTS, caseQueue |-> <<[label |-> << >>]>>]

\* ------------------------------------------------------------------------
\* Properties of the fingerprint of an artifact
\* ------------------------------------------------------------------------
\* C40: the fingerprint of a cache entry is the fingerprint of the bytes
\* its artifact was built from, and the artifact a cache hit returns was
\* built from the bytes the source held when it was fingerprinted for the hit.
C40_FingerprintMatchesArtifact ==
  script = "race" =>
    /\ \A k \in DOMAIN cacheFile.map : \A b \in requests :
         b.path = cacheFile.map[k].executablePath =>
           cacheFile.map[k].hash = ProfileHash(b.built, b.compiler, b.flags)
    /\ last.why = "cached" => \A b \in requests : b.path = last.path => b.built = last.bytes

====
